---- MODULE Spec2Model ----
(***************************************************************************)
(* A model of the unified-diff parser of sharptools/diff/basic-diff.ts     *)
(* (parseUnifiedDiff and the helpers it calls) and of the token-stream     *)
(* equivalence verifier that accompanies it; of the command that wraps the  *)
(* parser (BasicDiffCommand.execute: read the diff text, parse, attach     *)
(* context to the hunks, write the JSON document).                          *)
(*                                                                         *)
(* Lines of text are TLA+ strings.  The parser's while loops are unrolled  *)
(* into one action per loop iteration; `i` is the 0-based line index of    *)
(* the source, so the current line is lines[i + 1].  A JavaScript value    *)
(* that may be undefined/null is modelled as a sequence of length 0        *)
(* (absent) or 1 (present).                                                *)
(***************************************************************************)
EXTENDS Integers, Sequences, FiniteSets, TLC

\* the locals of one invocation of parseUnifiedDiff; pc is the position in
\* its loops and, for the command, the position in execute
VARIABLES lines, i, current, files, oldNum, newNum, pc, totals

\* the command: its options, the error caught by execute, the value it
\* returns, what it wrote to stdout, to stderr and to the output file
VARIABLES options, thrown, exitCode, stdoutOut, stderrOut, outFile

\* the result of the git process that getDiffText ran (None: no git was run)
VARIABLES git

\* enrichHunksWithContext: the index of the file of the loop, the outcomes of
\* the content lookups made for it, and its beforeContent and afterContent
VARIABLES fileIdx, lookups, beforeContent, afterContent

\* the locals of a second invocation of parseUnifiedDiff that is not running
VARIABLES other

cliVars ==
  <<options, thrown, exitCode, stdoutOut, stderrOut, outFile, git,
    fileIdx, lookups, beforeContent, afterContent>>

\* GitMonitor: its fields isProcessing, lastDiffHash and consecutiveNoChanges,
\* the numbers of checkForChanges calls that await hasGitChanges and
\* getCurrentGitDiff, the events emitted so far, and the watched repository
VARIABLES isProcessing, lastDiffHash, consecutiveNoChanges, inStatus, inDiff,
          emitted, repo

monVars ==
  <<isProcessing, lastDiffHash, consecutiveNoChanges, inStatus, inDiff,
    emitted, repo>>

vars == <<lines, i, current, files, oldNum, newNum, pc, totals, cliVars, other, monVars>>

-----------------------------------------------------------------------------
(* Optional values                                                         *)

None == <<>>

Some(v) == <<v>>

\* x ?? d
OrElse(x, d) == IF x = None THEN d ELSE x[1]

-----------------------------------------------------------------------------
(* String helpers (String.prototype.startsWith / substring / trim, join)   *)

startsWith(s, p) == Len(s) >= Len(p) /\ SubSeq(s, 1, Len(p)) = p

\* s.substring(k), k a 0-based offset
substring(s, k) == IF k >= Len(s) THEN "" ELSE SubSeq(s, k + 1, Len(s))

\* the character at 1-based position p, "" past the end
CharAt(s, p) == IF p >= 1 /\ p <= Len(s) THEN SubSeq(s, p, p) ELSE ""

\* the characters at 1-based positions a..b that exist
slice(s, a, b) ==
  LET lo == IF a < 1 THEN 1 ELSE a
      hi == IF b > Len(s) THEN Len(s) ELSE b
  IN IF lo > hi THEN "" ELSE SubSeq(s, lo, hi)

Whitespace == {" ", "\t"}

Digits == {"0", "1", "2", "3", "4", "5", "6", "7", "8", "9"}

OctalDigits == {"0", "1", "2", "3", "4", "5", "6", "7"}

HexDigits == Digits \cup {"a", "b", "c", "d", "e", "f", "A", "B", "C", "D", "E", "F"}

RECURSIVE TrimLeft(_)
TrimLeft(s) ==
  IF Len(s) > 0 /\ CharAt(s, 1) \in Whitespace THEN TrimLeft(substring(s, 1)) ELSE s

RECURSIVE TrimRight(_)
TrimRight(s) ==
  IF Len(s) > 0 /\ CharAt(s, Len(s)) \in Whitespace
  THEN TrimRight(SubSeq(s, 1, Len(s) - 1))
  ELSE s

trim(s) == TrimRight(TrimLeft(s))

\* the first position >= p whose character is not in set (Len(s) + 1 if none)
RECURSIVE SpanEnd(_, _, _)
SpanEnd(s, p, set) ==
  IF p <= Len(s) /\ CharAt(s, p) \in set THEN SpanEnd(s, p + 1, set) ELSE p

DigitVal(c) ==
  CASE c = "0" -> 0 [] c = "1" -> 1 [] c = "2" -> 2 [] c = "3" -> 3 [] c = "4" -> 4
    [] c = "5" -> 5 [] c = "6" -> 6 [] c = "7" -> 7 [] c = "8" -> 8 [] c = "9" -> 9

\* parseInt(s, 10) for a non-empty string of decimal digits
RECURSIVE parseInt(_)
parseInt(s) ==
  IF Len(s) = 0 THEN 0
  ELSE 10 * parseInt(SubSeq(s, 1, Len(s) - 1)) + DigitVal(CharAt(s, Len(s)))

\* the text of s before its first newline
RECURSIVE FirstLine(_)
FirstLine(s) ==
  IF Len(s) = 0 \/ CharAt(s, 1) = "\n" THEN ""
  ELSE CharAt(s, 1) \o FirstLine(substring(s, 1))

\* parts.join(sep) for a sequence of strings
RECURSIVE join(_, _)
join(parts, sep) ==
  IF Len(parts) = 0 THEN ""
  ELSE IF Len(parts) = 1 THEN parts[1]
  ELSE parts[1] \o sep \o join(Tail(parts), sep)

-----------------------------------------------------------------------------
(* Utilities of basic-diff.ts                                              *)

\* SHA-1, base64url, first 12 characters: modelled as a collision-free
\* tagging of the hashed string.
stableHash(input) == <<"sha1", input>>

\* an inferStatus that looks at the paths before the rename and copy markers
inferStatusPathsFirst(sawRenameFrom, sawCopyFrom, oldPath, newPath) ==
  IF oldPath = Some("/dev/null") THEN "added"
  ELSE IF newPath = Some("/dev/null") THEN "deleted"
  ELSE IF sawRenameFrom THEN "renamed"
  ELSE IF sawCopyFrom THEN "copied"
  ELSE "modified"

inferStatus(sawRenameFrom, sawCopyFrom, oldPath, newPath) ==
  IF sawRenameFrom THEN "renamed"
  ELSE IF sawCopyFrom THEN "copied"
  ELSE IF oldPath = Some("/dev/null") THEN "added"
  ELSE IF newPath = Some("/dev/null") THEN "deleted"
  ELSE "modified"

-----------------------------------------------------------------------------
(* Regular expressions of the parser                                       *)

\* /^index\s+([0-9a-fA-F]+)\.\.([0-9a-fA-F]+)(?:\s+([0-7]{6}))?/
\* None, or Some of the groups [old, new, mode] (mode optional)
IndexMatch(line) ==
  IF ~startsWith(line, "index") THEN None
  ELSE
    LET p1 == SpanEnd(line, 6, Whitespace)
        p2 == SpanEnd(line, p1, HexDigits)
        p3 == SpanEnd(line, p2 + 2, HexDigits)
        p4 == SpanEnd(line, p3, Whitespace)
        mode == slice(line, p4, p4 + 5)
        hasMode == /\ p4 > p3
                   /\ p4 + 5 <= Len(line)
                   /\ SpanEnd(line, p4, OctalDigits) >= p4 + 6
    IN IF /\ p1 > 6
          /\ p2 > p1
          /\ slice(line, p2, p2 + 1) = ".."
          /\ p3 > p2 + 2
       THEN Some([old |-> slice(line, p1, p2 - 1),
                  new |-> slice(line, p2 + 2, p3 - 1),
                  mode |-> IF hasMode THEN Some(mode) ELSE None])
       ELSE None

\* /\s([0-7]{6})$/
TrailingModeMatch(line) ==
  LET n == Len(line)
  IN IF /\ n >= 7
        /\ CharAt(line, n - 6) \in Whitespace
        /\ SpanEnd(line, n - 5, OctalDigits) = n + 1
     THEN Some(slice(line, n - 5, n))
     ELSE None

\* /similarity index\s+(\d+)%/ on a line that starts with 'similarity index '
SimilarityMatch(line) ==
  LET p1 == SpanEnd(line, 17, Whitespace)
      p2 == SpanEnd(line, p1, Digits)
  IN IF p1 > 17 /\ p2 > p1 /\ CharAt(line, p2) = "%"
     THEN Some(parseInt(slice(line, p1, p2 - 1)))
     ELSE None

\* one side of a hunk range: sign digits [, digits] starting at position p.
\* Gives the position after the range (0 when it does not match).
RangeEnd(line, p, sign) ==
  LET d1 == SpanEnd(line, p + 1, Digits)
      d2 == SpanEnd(line, d1 + 1, Digits)
  IN IF CharAt(line, p) # sign \/ d1 = p + 1 THEN 0
     ELSE IF CharAt(line, d1) = "," /\ d2 > d1 + 1 THEN d2
     ELSE d1

RangeStart(line, p) == parseInt(slice(line, p + 1, SpanEnd(line, p + 1, Digits) - 1))

\* a written count that is dropped when it is 0 (as `parseInt(..) || 1` would)
RangeCountZeroOmitted(line, p) ==
  LET d1 == SpanEnd(line, p + 1, Digits)
      d2 == SpanEnd(line, d1 + 1, Digits)
  IN IF CharAt(line, d1) = "," /\ d2 > d1 + 1 /\ parseInt(slice(line, d1 + 1, d2 - 1)) # 0
     THEN Some(slice(line, d1 + 1, d2 - 1))
     ELSE None

\* the written count of a range, None when it is omitted
RangeCount(line, p) ==
  LET d1 == SpanEnd(line, p + 1, Digits)
      d2 == SpanEnd(line, d1 + 1, Digits)
  IN IF CharAt(line, d1) = "," /\ d2 > d1 + 1
     THEN Some(slice(line, d1 + 1, d2 - 1))
     ELSE None

\* /^@@\s+-([0-9]+)(?:,([0-9]+))?\s+\+([0-9]+)(?:,([0-9]+))?\s+@@(.*)$/
\* None, or Some of the groups
HunkHeaderMatch(line) ==
  IF ~startsWith(line, "@@") THEN None
  ELSE
    LET a == SpanEnd(line, 3, Whitespace)
        b == RangeEnd(line, a, "-")
        c == SpanEnd(line, b, Whitespace)
        d == RangeEnd(line, c, "+")
        e == SpanEnd(line, d, Whitespace)
    IN IF /\ a > 3
          /\ b # 0
          /\ c > b
          /\ d # 0
          /\ e > d
          /\ slice(line, e, e + 1) = "@@"
       THEN Some([g1 |-> RangeStart(line, a),
                  g2 |-> RangeCount(line, a),
                  g3 |-> RangeStart(line, c),
                  g4 |-> RangeCount(line, c),
                  g5 |-> substring(line, e + 1)])
       ELSE None

-----------------------------------------------------------------------------
(* The line classification of the outer loop (the if-chain of lines        *)
(* 159-254, in source order) and of the inner hunk loop (lines 283-291)    *)

NoNewlineMarkerText == "\\ No newline at end of file"

OuterKind(line) ==
  IF startsWith(line, "diff --git ") THEN "boundary"
  ELSE IF startsWith(line, "index ") THEN "index"
  ELSE IF startsWith(line, "old mode ") THEN "oldMode"
  ELSE IF startsWith(line, "new mode ") THEN "newMode"
  ELSE IF startsWith(line, "similarity index ") THEN "similarity"
  ELSE IF startsWith(line, "rename from ") THEN "renameFrom"
  ELSE IF startsWith(line, "rename to ") THEN "renameTo"
  ELSE IF startsWith(line, "copy from ") THEN "copyFrom"
  ELSE IF startsWith(line, "copy to ") THEN "copyTo"
  ELSE IF startsWith(line, "--- ") THEN "oldPath"
  ELSE IF startsWith(line, "+++ ") THEN "newPath"
  ELSE IF startsWith(line, "Binary files ") \/ line = "GIT binary patch" THEN "binary"
  ELSE IF HunkHeaderMatch(line) # None THEN "hunkHeader"
  ELSE "other"

\* an inner loop without the branch of lines 290-296
InnerKindNoMarker(l) ==
  IF startsWith(l, "diff --git ") \/ startsWith(l, "@@ ") THEN "break"
  ELSE IF startsWith(l, "index ") \/ startsWith(l, "Binary files ")
          \/ startsWith(l, "GIT binary patch") THEN "break"
  ELSE "line"

\* an inner loop that leaves the hunk at a line with an unexpected first
\* character
InnerKindStrict(l) ==
  IF startsWith(l, "diff --git ") \/ startsWith(l, "@@ ") THEN "break"
  ELSE IF startsWith(l, "index ") \/ startsWith(l, "Binary files ")
          \/ startsWith(l, "GIT binary patch") THEN "break"
  ELSE IF l = NoNewlineMarkerText THEN "noNewline"
  ELSE IF CharAt(l, 1) \in {" ", "+", "-"} THEN "line"
  ELSE "break"

InnerKind(l) ==
  IF startsWith(l, "diff --git ") THEN "break"
  ELSE IF startsWith(l, "@@ ") THEN "break"
  ELSE IF \/ startsWith(l, "index ")
          \/ startsWith(l, "Binary files ")
          \/ startsWith(l, "GIT binary patch") THEN "break"
  ELSE IF l = NoNewlineMarkerText THEN "noNewline"
  ELSE "line"

-----------------------------------------------------------------------------
(* The in-progress file record and its finalization                        *)

NewCurrent(line) ==
  [headerLines |-> <<line>>,
   rawLines |-> <<line>>,
   hunks |-> <<>>,
   additions |-> 0,
   deletions |-> 0,
   pathOld |-> None,
   pathNew |-> None,
   modeBefore |-> None,
   modeAfter |-> None,
   isBinary |-> FALSE,
   sawRenameFrom |-> FALSE,
   sawCopyFrom |-> FALSE,
   similarityIndex |-> None,
   oldOid |-> None,
   newOid |-> None]

\* options.fileIdSeed of a call with default options
fileIdSeedOption == None

\* a file id that also hashes the number of hunks
FileIdInputWithHunks(c, status) ==
  join(<<OrElse(fileIdSeedOption, ""), OrElse(c.pathOld, ""), OrElse(c.pathNew, ""), status,
         OrElse(c.modeBefore, ""), OrElse(c.modeAfter, ""), ToString(Len(c.hunks))>>, "|")

FileIdInput(c, status) ==
  join(<<OrElse(fileIdSeedOption, ""),
         OrElse(c.pathOld, ""),
         OrElse(c.pathNew, ""),
         status,
         OrElse(c.modeBefore, ""),
         OrElse(c.modeAfter, "")>>, "|")

\* the FileDiff built by finalizeCurrent from the in-progress record c
FileOf(c) ==
  LET status == inferStatus(c.sawRenameFrom, c.sawCopyFrom, c.pathOld, c.pathNew)
  IN [id |-> stableHash(FileIdInput(c, status)),
      pathOld |-> c.pathOld,
      pathNew |-> c.pathNew,
      status |-> status,
      isBinary |-> c.isBinary,
      similarityIndex |-> c.similarityIndex,
      modeBefore |-> c.modeBefore,
      modeAfter |-> c.modeAfter,
      stats |-> [additions |-> c.additions, deletions |-> c.deletions, hunks |-> Len(c.hunks)],
      hunks |-> c.hunks,
      rawPatch |-> join(c.rawLines, "\n"),
      attachments |-> [before |-> c.oldOid, after |-> c.newOid]]

\* a finalizeCurrent that puts the finished file first (unshift for push)
finalizeCurrentUnshift(fs, cur) == IF cur = None THEN fs ELSE <<FileOf(cur[1])>> \o fs

\* files after finalizeCurrent()
finalizeCurrent(fs, cur) == IF cur = None THEN fs ELSE Append(fs, FileOf(cur[1]))

-----------------------------------------------------------------------------
(* Hunk construction (lines 253-275) and hunk lines (lines 298-329)        *)

HunkIdInput(c, oldStart, oldLines, newStart, newLines, sectionHeading, hunkIndex) ==
  LET fileIdSeed == join(<<OrElse(c.pathOld, ""), OrElse(c.pathNew, ""),
                           ToString(hunkIndex)>>, "|")
  IN join(<<fileIdSeed, ToString(oldStart), ToString(oldLines), ToString(newStart),
            ToString(newLines), OrElse(sectionHeading, ""), ToString(hunkIndex)>>, "|")

\* the hunk pushed for header `line` (whose groups are m) onto record c
NewHunk(c, line, m) ==
  LET oldStart == m.g1
      oldLines == IF m.g2 # None THEN parseInt(m.g2[1]) ELSE 1
      newStart == m.g3
      newLines == IF m.g4 # None THEN parseInt(m.g4[1]) ELSE 1
      sectionHeading == IF trim(m.g5) = "" THEN None ELSE Some(trim(m.g5))
      hunkIndex == Len(c.hunks)
  IN [id |-> stableHash(HunkIdInput(c, oldStart, oldLines, newStart, newLines,
                                    sectionHeading, hunkIndex)),
      oldStart |-> oldStart,
      oldLines |-> oldLines,
      newStart |-> newStart,
      newLines |-> newLines,
      sectionHeading |-> sectionHeading,
      lines |-> <<>>,
      rawHeader |-> line,
      \* the optional fields of the Hunk schema that the literal leaves unset
      contentHash |-> None,
      attachments |-> None]

\* the HunkLine built from line l when n lines are already in the hunk
\* a hunk line whose id is its 0-based position
NewHunkLineZeroBased(l, n, oNum, nNum) ==
  LET prefix == CharAt(l, 1)
      text == IF Len(l) > 0 THEN substring(l, 1) ELSE ""
  IN [id |-> ToString(n),
      op |-> IF prefix = " " THEN "context"
             ELSE IF prefix = "+" THEN "add"
             ELSE IF prefix = "-" THEN "del"
             ELSE "context",
      text |-> text,
      oldNumber |-> IF prefix = " " \/ prefix = "-" THEN Some(oNum) ELSE None,
      newNumber |-> IF prefix = " " \/ prefix = "+" THEN Some(nNum) ELSE None,
      noNewlineAtEndOfFile |-> FALSE]

NewHunkLine(l, n, oNum, nNum) ==
  LET prefix == CharAt(l, 1)
      text == IF Len(l) > 0 THEN substring(l, 1) ELSE ""
  IN [id |-> ToString(n + 1),
      op |-> IF prefix = " " THEN "context"
             ELSE IF prefix = "+" THEN "add"
             ELSE IF prefix = "-" THEN "del"
             ELSE "context",
      text |-> text,
      oldNumber |-> IF prefix = " " \/ prefix = "-" THEN Some(oNum) ELSE None,
      newNumber |-> IF prefix = " " \/ prefix = "+" THEN Some(nNum) ELSE None,
      noNewlineAtEndOfFile |-> FALSE]

-----------------------------------------------------------------------------
(* Totals (lines 341-357)                                                  *)

\* the accumulation `acc += ns[k]` over a list, front to back
RECURSIVE SumSeq(_)
SumSeq(ns) == IF Len(ns) = 0 THEN 0 ELSE ns[1] + SumSeq(Tail(ns))

\* totals that count every file as binary (`binaries += 1` outside its if)
TotalsOfCountingAll(fs) ==
  [filesChanged |-> Len(fs),
   additions |-> SumSeq([k \in 1..Len(fs) |-> fs[k].stats.additions]),
   deletions |-> SumSeq([k \in 1..Len(fs) |-> fs[k].stats.deletions]),
   hunks |-> SumSeq([k \in 1..Len(fs) |-> Len(fs[k].hunks)]),
   binaryFilesChanged |-> Len(fs)]

TotalsOf(fs) ==
  [filesChanged |-> Len(fs),
   additions |-> SumSeq([k \in 1..Len(fs) |-> fs[k].stats.additions]),
   deletions |-> SumSeq([k \in 1..Len(fs) |-> fs[k].stats.deletions]),
   hunks |-> SumSeq([k \in 1..Len(fs) |-> Len(fs[k].hunks)]),
   binaryFilesChanged |-> SumSeq([k \in 1..Len(fs) |-> IF fs[k].isBinary THEN 1 ELSE 0])]

NoTotals == [filesChanged |-> 0, additions |-> 0, deletions |-> 0, hunks |-> 0,
             binaryFilesChanged |-> 0]

-----------------------------------------------------------------------------
(* Inputs                                                                  *)

\* the longest input made of arbitrary lines of LinePool
MaxLines == 3

\* the largest number of file blocks of BlockPool in one input
MaxBlocks == 2

LinePool ==
  {"diff --git a/x b/x",
   "index 1a..2b 100644",
   "rename from x",
   "--- a/x",
   "+++ /dev/null",
   "Binary files a/x and b/x differ",
   "@@ -1,2 +1 @@ f",
   "@@ stat",
   " c",
   "+a",
   "-d",
   "",
   "oops",
   NoNewlineMarkerText}

\* file blocks as git writes them
ModifyBlock ==
  <<"diff --git a/x b/x", "index 1a..2b 100644", "--- a/x", "+++ b/x",
    "@@ -10,3 +10,4 @@ f", " c", "+a", "-d", " c">>

AddBlock ==
  <<"diff --git a/y b/y", "new file mode 100644", "index 0000000..2b",
    "--- /dev/null", "+++ b/y", "@@ -0,0 +1 @@", "+a", NoNewlineMarkerText>>

DeleteBlock ==
  <<"diff --git a/x b/x", "deleted file mode 100644", "index 1a..0000000",
    "--- a/x", "+++ /dev/null", "@@ -1 +0,0 @@", "-d">>

RenameBlock ==
  <<"diff --git a/x b/y", "similarity index 100%", "rename from x", "rename to y">>

CopyBlock ==
  <<"diff --git a/x b/y", "similarity index 90%", "copy from x", "copy to y">>

BinaryBlock ==
  <<"diff --git a/p.png b/p.png", "index 1a..2b 100644",
    "Binary files a/p.png and b/p.png differ">>

BinaryBlock2 ==
  <<"diff --git a/q.png b/q.png", "index 3c..4d 100644", "GIT binary patch">>

ModeBlock ==
  <<"diff --git a/x b/x", "old mode 100644", "new mode 100755">>

ModeBlock2 ==
  <<"diff --git a/y b/y", "old mode 100644", "new mode 100755">>

\* the removed line is "-- q" and the added line is "++ q"
DashDashBlock ==
  <<"diff --git a/x b/x", "index 1a..2b 100644", "--- a/x", "+++ b/x",
    "@@ -1 +1 @@", "--- q", "+++ q">>

\* the last line of the hunk is a blank context line
BlankContextBlock ==
  <<"diff --git a/x b/x", "index 1a..2b 100644", "--- a/x", "+++ b/x",
    "@@ -1,2 +1,3 @@", " c", "+a", " ">>

\* neither the old nor the new file ends with a newline
NoNewlineBlock ==
  <<"diff --git a/x b/x", "index 1a..2b 100644", "--- a/x", "+++ b/x",
    "@@ -1,2 +1,2 @@", " c", "-d", NoNewlineMarkerText, "+a", NoNewlineMarkerText>>

ValidBlocks ==
  {ModifyBlock, AddBlock, DeleteBlock, RenameBlock, CopyBlock, BinaryBlock, BinaryBlock2,
   ModeBlock, ModeBlock2, DashDashBlock, BlankContextBlock, NoNewlineBlock}

\* file blocks no git writes, which the parser accepts all the same
PathFirstBlock ==
  <<"diff --git a/x b/x", "--- a/x", "+++ b/x", "@@ -1 +1 @@", " c">>

PathLastBlock ==
  <<"diff --git a/x b/x", "@@ -1 +1 @@", " c", "index 1a..2b", "--- a/x", "+++ b/x">>

BinaryWithHunkBlock ==
  <<"diff --git a/x b/x", "@@ -1 +1,2 @@", " c", "+a", "Binary files a/x and b/x differ">>

RenameFromNullBlock ==
  <<"diff --git a/x b/y", "rename from x", "rename to y", "--- /dev/null", "+++ b/y">>

MarkerInHunkBlock ==
  <<"diff --git a/x b/x", "@@ -1 +1 @@", "rename from x", NoNewlineMarkerText, "oops">>

BlockPool ==
  ValidBlocks \cup
  {PathFirstBlock, PathLastBlock, BinaryWithHunkBlock, RenameFromNullBlock, MarkerInHunkBlock}

RECURSIVE Flatten(_)
Flatten(bs) == IF Len(bs) = 0 THEN <<>> ELSE bs[1] \o Flatten(Tail(bs))

SeqsUpTo(S, n) == UNION {[1..k -> S] : k \in 0..n}

\* the text of up to MaxBlocks blocks, with or without the final newline
\* (which split('\n') turns into a last empty line)
BlockInputs(pool) ==
  {Flatten(bs) \o t : bs \in SeqsUpTo(pool, MaxBlocks), t \in {<<>>, <<"">>}}

Inputs == SeqsUpTo(LinePool, MaxLines) \cup BlockInputs(BlockPool)

\* git's output for up to MaxBlocks files: every block as git writes it, and
\* a newline after the last line
ValidInputs == {Flatten(bs) \o <<"">> : bs \in SeqsUpTo(ValidBlocks, MaxBlocks)}

-----------------------------------------------------------------------------
(* parseUnifiedDiff as a state machine                                     *)

\* the option values of a command line without options
DefaultOptions ==
  [quiet |-> FALSE, noContext |-> FALSE, contextRadiusOpt |-> "20",
   outputFile |-> None, refA |-> None, refB |-> None]

\* no command has run
CliIdle ==
  /\ options = DefaultOptions
  /\ thrown = None
  /\ exitCode = None
  /\ stdoutOut = <<>>
  /\ stderrOut = <<>>
  /\ outFile = None
  /\ git = None
  /\ fileIdx = 0
  /\ lookups = None
  /\ beforeContent = None
  /\ afterContent = None

\* a repository without changes
CleanRepo == [changes |-> FALSE, diff |-> ""]

\* a GitMonitor as constructed (lines 13-17), with no check under way
MonIdle ==
  /\ isProcessing = FALSE
  /\ lastDiffHash = ""
  /\ consecutiveNoChanges = 0
  /\ inStatus = 0
  /\ inDiff = 0
  /\ emitted = <<>>
  /\ repo = CleanRepo

\* parseUnifiedDiff is called with the text whose lines are `lines`
Init ==
  /\ lines \in Inputs
  /\ i = 0
  /\ current = None
  /\ files = <<>>
  /\ oldNum = 0
  /\ newNum = 0
  /\ pc = "outer"
  /\ totals = NoTotals
  /\ CliIdle
  /\ MonIdle
  /\ other = None

Line == lines[i + 1]

InOuter == pc = "outer" /\ i < Len(lines)

\* current.rawLines.push(line) (line 181)
Pushed == [current[1] EXCEPT !.rawLines = Append(@, Line)]

\* whether the outer loop is at a line of a file block that takes branch `kind`
AtLine(kind) == InOuter /\ current # None /\ OuterKind(Line) = kind

\* the end of a branch of the outer loop: the record is updated, i++, continue
Advance(rec) ==
  /\ current' = Some(rec)
  /\ i' = i + 1
  /\ UNCHANGED <<cliVars, other, monVars, lines, files, oldNum, newNum, pc, totals>>

FileBoundary ==
  /\ InOuter
  /\ OuterKind(Line) = "boundary"
  /\ files' = finalizeCurrent(files, current)
  /\ current' = Some(NewCurrent(Line))
  /\ i' = i + 1
  /\ UNCHANGED <<cliVars, other, monVars, lines, oldNum, newNum, pc, totals>>

\* a prelude branch that opens a file record for the line instead of skipping it
SkipPreludeOpensFile ==
  /\ InOuter
  /\ OuterKind(Line) # "boundary"
  /\ current = None
  /\ current' = Some(NewCurrent(Line))
  /\ i' = i + 1
  /\ UNCHANGED <<cliVars, other, monVars, lines, files, oldNum, newNum, pc, totals>>

SkipPrelude ==
  /\ InOuter
  /\ OuterKind(Line) # "boundary"
  /\ current = None
  /\ i' = i + 1
  /\ UNCHANGED <<cliVars, other, monVars, lines, current, files, oldNum, newNum, pc, totals>>

IndexLine ==
  LET m == IndexMatch(Line)
      modeMatch == TrailingModeMatch(Line)
  IN /\ AtLine("index")
     /\ Advance(
       IF m # None
       THEN [Pushed EXCEPT !.oldOid = Some(m[1].old),
                           !.newOid = Some(m[1].new),
                           !.modeAfter = IF m[1].mode # None THEN m[1].mode ELSE @]
       ELSE IF modeMatch # None THEN [Pushed EXCEPT !.modeAfter = modeMatch]
       ELSE Pushed)

OldModeLine ==
  /\ AtLine("oldMode")
  /\ Advance([Pushed EXCEPT !.modeBefore = Some(trim(substring(Line, Len("old mode "))))])

NewModeLine ==
  /\ AtLine("newMode")
  /\ Advance([Pushed EXCEPT !.modeAfter = Some(trim(substring(Line, Len("new mode "))))])

SimilarityLine ==
  LET m == SimilarityMatch(Line)
  IN /\ AtLine("similarity")
     /\ Advance(IF m # None THEN [Pushed EXCEPT !.similarityIndex = m] ELSE Pushed)

RenameFromLine ==
  /\ AtLine("renameFrom")
  /\ Advance(
    [Pushed EXCEPT !.sawRenameFrom = TRUE,
                   !.pathOld = Some(trim(substring(Line, Len("rename from "))))])

RenameToLine ==
  /\ AtLine("renameTo")
  /\ Advance([Pushed EXCEPT !.pathNew = Some(trim(substring(Line, Len("rename to "))))])

CopyFromLine ==
  /\ AtLine("copyFrom")
  /\ Advance(
    [Pushed EXCEPT !.sawCopyFrom = TRUE,
                   !.pathOld = Some(trim(substring(Line, Len("copy from "))))])

CopyToLine ==
  /\ AtLine("copyTo")
  /\ Advance([Pushed EXCEPT !.pathNew = Some(trim(substring(Line, Len("copy to "))))])

OldPathLine ==
  /\ AtLine("oldPath")
  /\ Advance([Pushed EXCEPT !.pathOld = Some(trim(substring(Line, 4)))])

NewPathLine ==
  /\ AtLine("newPath")
  /\ Advance([Pushed EXCEPT !.pathNew = Some(trim(substring(Line, 4)))])

BinaryMarker ==
  /\ AtLine("binary")
  /\ Advance([Pushed EXCEPT !.isBinary = TRUE])

\* line 336: a line of a file block that no branch recognises
OtherLine ==
  /\ AtLine("other")
  /\ Advance(Pushed)

HunkHeader ==
  /\ AtLine("hunkHeader")
  /\ LET hunk == NewHunk(Pushed, Line, HunkHeaderMatch(Line)[1])
     IN /\ current' = Some([Pushed EXCEPT !.hunks = Append(@, hunk)])
        /\ oldNum' = hunk.oldStart
        /\ newNum' = hunk.newStart
  /\ i' = i + 1
  /\ pc' = "inner"
  /\ UNCHANGED <<cliVars, other, monVars, lines, files, totals>>

\* the inner loop ends (input exhausted or a break) and the outer loop continues
HunkBreak ==
  /\ pc = "inner"
  /\ IF i < Len(lines) THEN InnerKind(Line) = "break" ELSE TRUE
  /\ pc' = "outer"
  /\ UNCHANGED <<cliVars, other, monVars, lines, i, current, files, oldNum, newNum, totals>>

\* the hunk under construction is the last hunk of the in-progress record
LastHunk == Len(current[1].hunks)

\* a marker branch that forgets the i++ of line 294
NoNewlineMarkerStaying ==
  /\ pc = "inner"
  /\ i < Len(lines)
  /\ InnerKind(Line) = "noNewline"
  /\ LET n == Len(current[1].hunks[LastHunk].lines)
     IN current' =
          IF n > 0
          THEN Some([current[1] EXCEPT
                       !.hunks[LastHunk].lines[n].noNewlineAtEndOfFile = TRUE])
          ELSE current
  /\ UNCHANGED <<cliVars, other, monVars, lines, i, files, oldNum, newNum, pc, totals>>

NoNewlineMarker ==
  /\ pc = "inner"
  /\ i < Len(lines)
  /\ InnerKind(Line) = "noNewline"
  /\ LET n == Len(current[1].hunks[LastHunk].lines)
     IN current' =
          IF n > 0
          THEN Some([current[1] EXCEPT
                       !.hunks[LastHunk].lines[n].noNewlineAtEndOfFile = TRUE])
          ELSE current
  /\ i' = i + 1
  /\ UNCHANGED <<cliVars, other, monVars, lines, files, oldNum, newNum, pc, totals>>

\* a hunk-line step that also counts a line of unknown prefix as an addition
HunkLineStepCountingUnknown ==
  /\ pc = "inner" /\ i < Len(lines) /\ InnerKind(Line) = "line"
  /\ LET prefix == CharAt(Line, 1)
         entry == NewHunkLine(Line, Len(current[1].hunks[LastHunk].lines), oldNum, newNum)
     IN /\ current' = Some([current[1] EXCEPT !.hunks[LastHunk].lines = Append(@, entry),
                     !.additions = IF prefix \notin {" ", "-"} THEN @ + 1 ELSE @,
                     !.deletions = IF prefix = "-" THEN @ + 1 ELSE @])
        /\ oldNum' = IF prefix = " " \/ prefix = "-" THEN oldNum + 1 ELSE oldNum
        /\ newNum' = IF prefix = " " \/ prefix = "+" THEN newNum + 1 ELSE newNum
  /\ i' = i + 1
  /\ UNCHANGED <<cliVars, other, monVars, lines, files, pc, totals>>

HunkLineStep ==
  /\ pc = "inner"
  /\ i < Len(lines)
  /\ InnerKind(Line) = "line"
  /\ LET prefix == CharAt(Line, 1)
         entry == NewHunkLine(Line, Len(current[1].hunks[LastHunk].lines), oldNum, newNum)
     IN /\ current' =
             Some([current[1] EXCEPT
                     !.hunks[LastHunk].lines = Append(@, entry),
                     !.additions = IF prefix = "+" THEN @ + 1 ELSE @,
                     !.deletions = IF prefix = "-" THEN @ + 1 ELSE @])
        /\ oldNum' = IF prefix = " " \/ prefix = "-" THEN oldNum + 1 ELSE oldNum
        /\ newNum' = IF prefix = " " \/ prefix = "+" THEN newNum + 1 ELSE newNum
  /\ i' = i + 1
  /\ UNCHANGED <<cliVars, other, monVars, lines, files, pc, totals>>

\* lines 339-357: the last finalizeCurrent(), the totals, the return
Finish ==
  /\ pc = "outer"
  /\ i >= Len(lines)
  /\ files' = finalizeCurrent(files, current)
  /\ current' = None
  /\ totals' = TotalsOf(files')
  /\ pc' = "done"
  /\ UNCHANGED <<cliVars, other, monVars, lines, i, oldNum, newNum>>

Next ==
  \/ FileBoundary
  \/ SkipPrelude
  \/ IndexLine
  \/ OldModeLine
  \/ NewModeLine
  \/ SimilarityLine
  \/ RenameFromLine
  \/ RenameToLine
  \/ CopyFromLine
  \/ CopyToLine
  \/ OldPathLine
  \/ NewPathLine
  \/ BinaryMarker
  \/ OtherLine
  \/ HunkHeader
  \/ HunkBreak
  \/ NoNewlineMarker
  \/ HunkLineStep
  \/ Finish

Spec == Init /\ [][Next]_vars

\* a step of the loops of lines 155-337, seen through the line index and the
\* place in the code only
LoopStep ==
  /\ pc \in {"outer", "inner"}
  /\ pc' \in {"outer", "inner", "done"}
  /\ i' \in {i, i + 1}

\* the parser run to completion: parseUnifiedDiff is synchronous code on one
\* thread, so while it is in its loops it keeps taking steps
SpecLive == Init /\ [][Next]_vars /\ WF_<<i, pc>>(LoopStep)

TypeOK ==
  /\ i \in 0..Len(lines)
  /\ pc \in {"start", "outer", "inner", "done", "enrich", "write", "exit"}
  /\ Len(current) <= 1

-----------------------------------------------------------------------------
(* Context enrichment (stripABPrefix, sliceContextLines and                *)
(* enrichHunksWithContext).  A file content is the list of its lines, that *)
(* is content.split('\n'); the empty string is the list <<"">>.            *)

stripABPrefix(path) ==
  IF path = None THEN None
  ELSE IF path[1] = "" THEN None
  ELSE IF path[1] = "/dev/null" THEN None
  ELSE IF startsWith(path[1], "a/") THEN Some(substring(path[1], 2))
  ELSE IF startsWith(path[1], "b/") THEN Some(substring(path[1], 2))
  ELSE path

\* !x for an optional string: undefined and '' are falsy
FalsyString(x) == IF x = None THEN TRUE ELSE x[1] = ""

\* !content for an optional file content
FalsyContent(c) == IF c = None THEN TRUE ELSE c[1] = <<"">>

\* Array.prototype.slice(from, to) with from >= 0
ArraySlice(all, from, to) ==
  LET end == IF to < 0 THEN (IF Len(all) + to < 0 THEN 0 ELSE Len(all) + to)
             ELSE IF to > Len(all) THEN Len(all) ELSE to
  IN IF from >= end THEN <<>> ELSE SubSeq(all, from + 1, end)

\* a slice that takes the start line as a 0-based index
sliceContextLinesOneBased(content, startLine, numLines, radius) ==
  IF content = None THEN None
  ELSE LET all == content[1]
           startIdx == IF startLine - radius > 0 THEN startLine - radius ELSE 0
           endIdx == IF Len(all) < startLine + numLines + radius
                     THEN Len(all) ELSE startLine + numLines + radius
       IN Some(ArraySlice(all, startIdx, endIdx))

sliceContextLines(content, startLine, numLines, radius) ==
  IF content = None THEN None
  ELSE LET all == content[1]
           startIdx == IF (startLine - 1) - radius > 0 THEN (startLine - 1) - radius ELSE 0
           endIdx == IF Len(all) < (startLine - 1) + numLines + radius
                     THEN Len(all) ELSE (startLine - 1) + numLines + radius
       IN Some(ArraySlice(all, startIdx, endIdx))

\* the outcome of one content lookup: not made, thrown, or resolved
Skipped == [status |-> "skipped", content |-> <<>>]
Threw == [status |-> "threw", content |-> <<>>]
Resolved(content) == [status |-> "ok", content |-> content]

\* the content a lookup leaves in the variable that held `was`
ContentAfter(outcome, was) == IF outcome.status = "ok" THEN Some(outcome.content) ELSE was

\* a read of the working tree whose rejection is not caught
PropagatedErrorOfWorkTree(made) ==
  IF made.workTree.status = "threw" THEN Some("ENOENT: no such file or directory") ELSE None

\* the error that leaves the function after the lookups `made`: every await
\* is inside a try whose catch ignores the error (lines 405-422), so none does
PropagatedError(made) == None

\* lines 399-422 for one file: env gives the outcome each lookup would have.
\* The result lists the lookups as made, the two contents, and the error
\* that leaves the function.
ResolveContents(file, baseRef, headRef, env) ==
  LET oldRel == stripABPrefix(file.pathOld)
      newRel == stripABPrefix(file.pathNew)
      beforeOid == file.attachments.before
      afterOid == file.attachments.after
      \* the try block of lines 405-412: a throw of the first readBlob skips the second
      beforeBlob == IF ~FalsyString(beforeOid) THEN env.beforeBlob ELSE Skipped
      afterBlob == IF ~FalsyString(afterOid) /\ beforeBlob.status # "threw"
                   THEN env.afterBlob ELSE Skipped
      before1 == ContentAfter(beforeBlob, None)
      after1 == ContentAfter(afterBlob, None)
      atBase == IF FalsyContent(before1) /\ ~FalsyString(baseRef) /\ ~FalsyString(oldRel)
                THEN env.baseRef ELSE Skipped
      before2 == ContentAfter(atBase, before1)
      atHead == IF FalsyContent(after1) /\ ~FalsyString(headRef) /\ ~FalsyString(newRel)
                THEN env.headRef ELSE Skipped
      after2 == ContentAfter(atHead, after1)
      workTree == IF FalsyContent(after2) /\ ~FalsyString(newRel)
                  THEN env.workTree ELSE Skipped
      after3 == ContentAfter(workTree, after2)
      made == [beforeBlob |-> beforeBlob, afterBlob |-> afterBlob, baseRef |-> atBase,
               headRef |-> atHead, workTree |-> workTree]
  IN [lookups |-> made,
      before |-> before2,
      after |-> after3,
      error |-> PropagatedError(made)]

\* an attachment that also stamps the hunk's id with the radius
AttachContextRestamping(hunk, radius, before, after) ==
  [hunk EXCEPT !.id = stableHash(ToString(radius) \o "|" \o hunk.rawHeader),
               !.attachments =
                 Some([context |-> [radius |-> radius,
                                    before |-> sliceContextLines(before, hunk.oldStart,
                                                                 hunk.oldLines, radius),
                                    after |-> sliceContextLines(after, hunk.newStart,
                                                                hunk.newLines, radius)]])]

\* lines 424-433 for one hunk
AttachContext(hunk, radius, before, after) ==
  LET b == sliceContextLines(before, hunk.oldStart, hunk.oldLines, radius)
      a == sliceContextLines(after, hunk.newStart, hunk.newLines, radius)
  IN IF b # None \/ a # None
     THEN [hunk EXCEPT !.attachments =
             Some([context |-> [radius |-> radius, before |-> b, after |-> a]])]
     ELSE hunk

-----------------------------------------------------------------------------
(* The command: BasicDiffCommand.execute, getDiffText and buildGitArgs     *)

\* parseInt(s, 10) of any string: None stands for NaN
parseIntPrefix(s) ==
  LET t == TrimLeft(s)
      signed == CharAt(t, 1) \in {"-", "+"}
      body == IF signed THEN substring(t, 1) ELSE t
      e == SpanEnd(body, 1, Digits)
  IN IF e = 1 THEN None
     ELSE Some((IF CharAt(t, 1) = "-" THEN -1 ELSE 1) * parseInt(SubSeq(body, 1, e - 1)))

\* line 499: Math.max(0, parseInt(this.contextRadiusOpt || '20', 10) || 0)
\* a radius that falls back to the default when the option parses to 0 or NaN
effectiveRadiusDefaulting(contextRadiusOpt) ==
  LET n == parseIntPrefix(IF contextRadiusOpt = "" THEN "20" ELSE contextRadiusOpt)
      value == IF n = None THEN 20 ELSE IF n[1] = 0 THEN 20 ELSE n[1]
  IN IF value > 0 THEN value ELSE 0

effectiveRadius(contextRadiusOpt) ==
  LET n == parseIntPrefix(IF contextRadiusOpt = "" THEN "20" ELSE contextRadiusOpt)
      value == IF n = None THEN 0 ELSE n[1]
  IN IF value > 0 THEN value ELSE 0

\* buildGitArgs for the default colour mode and no --commits, --staged, -U
buildGitArgs(opts) ==
  <<"diff", "--no-color">> \o
  (IF ~FalsyString(opts.refA) /\ ~FalsyString(opts.refB)
   THEN <<opts.refA[1] \o ".." \o opts.refB[1]>>
   ELSE IF ~FalsyString(opts.refA) THEN <<opts.refA[1]>>
   ELSE <<>>)

\* getDiffText without the check of git's exit code
getDiffTextUnchecked(isTTY, piped, run, opts) ==
  [error |-> None, text |-> IF ~isTTY THEN piped ELSE run.stdout]

\* getDiffText: the text comes from stdin when it is piped, else from the git
\* process whose result is `run`.  The texts hold no escape character, on
\* which stripAnsi removes nothing.
getDiffText(isTTY, piped, run, opts) ==
  IF ~isTTY THEN [error |-> None, text |-> piped]
  ELSE IF run.code # 0
  THEN [error |-> Some(IF run.stderr # "" THEN run.stderr
                       ELSE "git " \o join(buildGitArgs(opts), " ")
                              \o " failed with code " \o ToString(run.code)),
        text |-> <<>>]
  ELSE [error |-> None, text |-> run.stdout]

\* JSON.stringify(basic, null, 2) of the document
JsonOf(fs, tot) == <<"json", [totals |-> tot, files |-> fs]>>

\* the catch block of execute (lines 511-517)
Fails(message) ==
  /\ thrown' = Some(message)
  /\ stderrOut' = IF ~options.quiet THEN Append(stderrOut, "Error: " \o message \o "\n")
                  ELSE stderrOut
  /\ exitCode' = Some(1)
  /\ pc' = "exit"

\* the texts the command is given, as lines
CliInputs ==
  {ModifyBlock \o AddBlock \o <<"">>,
   <<"warning: x">> \o PathFirstBlock \o BinaryBlock,
   RenameBlock \o ModeBlock \o <<"">>,
   CopyBlock \o DeleteBlock,
   BinaryWithHunkBlock \o PathFirstBlock,
   <<"">>}

OptionSets ==
  [quiet : BOOLEAN, noContext : BOOLEAN,
   contextRadiusOpt : {"", "0", "1", "-1", "abc"},
   outputFile : {None, Some("out.json")},
   refA : {None, Some("A")}, refB : {None, Some("B")}]

\* the results of the git process: success with a diff, or a failure that
\* may have written part of a diff
GitRuns ==
  [code : {0}, stdout : CliInputs, stderr : {""}] \cup
  [code : {1, 128}, stdout : {<<"">>, ModifyBlock}, stderr : {"", "fatal: bad revision"}]

\* the lines `tag 1` .. `tag n`
NumberedLines(tag, n) == [k \in 1..n |-> tag \o " " \o ToString(k)]

\* what each lookup of one file may do
LookupEnvs ==
  [beforeBlob : {Threw, Resolved(<<"">>), Resolved(NumberedLines("old blob", 12))},
   afterBlob : {Threw, Resolved(<<"">>), Resolved(NumberedLines("new blob", 12))},
   baseRef : {Threw, Resolved(NumberedLines("at base", 12))},
   headRef : {Threw, Resolved(NumberedLines("at head", 12))},
   workTree : {Threw, Resolved(NumberedLines("on disk", 12))}]

CliInit ==
  /\ lines = <<>>
  /\ i = 0
  /\ current = None
  /\ files = <<>>
  /\ oldNum = 0
  /\ newNum = 0
  /\ pc = "start"
  /\ totals = NoTotals
  /\ options \in OptionSets
  /\ thrown = None
  /\ exitCode = None
  /\ stdoutOut = <<>>
  /\ stderrOut = <<>>
  /\ outFile = None
  /\ git = None
  /\ fileIdx = 0
  /\ lookups = None
  /\ beforeContent = None
  /\ afterContent = None
  /\ other = None
  /\ MonIdle

\* line 473, getDiffText returns: parseUnifiedDiff is called with the text
GetDiffText ==
  /\ pc = "start"
  /\ \E isTTY \in BOOLEAN, piped \in CliInputs, run \in GitRuns :
       LET res == getDiffText(isTTY, piped, run, options)
       IN /\ res.error = None
          /\ lines' = res.text
          /\ git' = IF isTTY THEN Some(run) ELSE None
  /\ pc' = "outer"
  /\ UNCHANGED <<i, current, files, oldNum, newNum, totals, other, monVars>>
  /\ UNCHANGED <<options, thrown, exitCode, stdoutOut, stderrOut, outFile,
                 fileIdx, lookups, beforeContent, afterContent>>

\* line 473, getDiffText throws: execute catches and returns 1
GetDiffTextFails ==
  /\ pc = "start"
  /\ \E isTTY \in BOOLEAN, piped \in CliInputs, run \in GitRuns :
       LET res == getDiffText(isTTY, piped, run, options)
       IN /\ res.error # None
          /\ git' = IF isTTY THEN Some(run) ELSE None
          /\ Fails(res.error[1])
  /\ UNCHANGED <<lines, i, current, files, oldNum, newNum, totals, other, monVars>>
  /\ UNCHANGED <<options, stdoutOut, outFile, fileIdx, lookups, beforeContent, afterContent>>

\* line 500, the condition is false
SkipContext ==
  /\ pc = "done"
  /\ ~(~options.noContext /\ effectiveRadius(options.contextRadiusOpt) > 0)
  /\ pc' = "write"
  /\ UNCHANGED <<lines, i, current, files, oldNum, newNum, totals, cliVars, other, monVars>>

\* line 500, the condition is true: enrichHunksWithContext is called
BeginContext ==
  /\ pc = "done"
  /\ ~options.noContext /\ effectiveRadius(options.contextRadiusOpt) > 0
  /\ pc' = "enrich"
  /\ fileIdx' = 0
  /\ UNCHANGED <<lines, i, current, files, oldNum, newNum, totals, other, monVars>>
  /\ UNCHANGED <<options, thrown, exitCode, stdoutOut, stderrOut, outFile, git,
                 lookups, beforeContent, afterContent>>

\* line 398: a binary file is passed over
SkipBinaryFile ==
  /\ pc = "enrich"
  /\ fileIdx < Len(files)
  /\ files[fileIdx + 1].isBinary
  /\ fileIdx' = fileIdx + 1
  /\ UNCHANGED <<lines, i, current, files, oldNum, newNum, pc, totals, other, monVars>>
  /\ UNCHANGED <<options, thrown, exitCode, stdoutOut, stderrOut, outFile, git,
                 lookups, beforeContent, afterContent>>

\* lines 399-433: one iteration of the loop over the files
EnrichFile ==
  /\ pc = "enrich"
  /\ fileIdx < Len(files)
  /\ ~files[fileIdx + 1].isBinary
  /\ \E env \in LookupEnvs :
       LET k == fileIdx + 1
           radius == effectiveRadius(options.contextRadiusOpt)
           res == ResolveContents(files[k], options.refA, options.refB, env)
       IN /\ lookups' = Some(res.lookups)
          /\ beforeContent' = res.before
          /\ afterContent' = res.after
          /\ IF res.error # None
             THEN /\ Fails(res.error[1])
                  /\ UNCHANGED <<files, fileIdx>>
             ELSE /\ files' = [files EXCEPT ![k].hunks =
                                 [h \in DOMAIN @ |->
                                    AttachContext(@[h], radius, res.before, res.after)]]
                  /\ fileIdx' = k
                  /\ UNCHANGED <<thrown, exitCode, stderrOut, pc>>
  /\ UNCHANGED <<lines, i, current, oldNum, newNum, totals, other, monVars>>
  /\ UNCHANGED <<options, stdoutOut, outFile, git>>

\* the loop over the files ends and enrichHunksWithContext returns
EnrichEnd ==
  /\ pc = "enrich"
  /\ fileIdx = Len(files)
  /\ pc' = "write"
  /\ UNCHANGED <<lines, i, current, files, oldNum, newNum, totals, cliVars, other, monVars>>

\* lines 504-510 without --output
WriteStdout ==
  /\ pc = "write"
  /\ FalsyString(options.outputFile)
  /\ stdoutOut' = Append(stdoutOut, JsonOf(files, totals) \o <<"\n">>)
  /\ exitCode' = Some(0)
  /\ pc' = "exit"
  /\ UNCHANGED <<lines, i, current, files, oldNum, newNum, totals, other, monVars>>
  /\ UNCHANGED <<options, thrown, stderrOut, outFile, git,
                 fileIdx, lookups, beforeContent, afterContent>>

\* lines 504-507 with --output, writeFile resolves
WriteFile ==
  /\ pc = "write"
  /\ ~FalsyString(options.outputFile)
  /\ outFile' = Some(JsonOf(files, totals))
  /\ exitCode' = Some(0)
  /\ pc' = "exit"
  /\ UNCHANGED <<lines, i, current, files, oldNum, newNum, totals, other, monVars>>
  /\ UNCHANGED <<options, thrown, stdoutOut, stderrOut, git,
                 fileIdx, lookups, beforeContent, afterContent>>

\* lines 504-507 with --output, writeFile rejects
WriteFileFails ==
  /\ pc = "write"
  /\ ~FalsyString(options.outputFile)
  /\ Fails("EACCES: permission denied, open " \o "'" \o options.outputFile[1] \o "'")
  /\ UNCHANGED <<lines, i, current, files, oldNum, newNum, totals, other, monVars>>
  /\ UNCHANGED <<options, stdoutOut, outFile, git,
                 fileIdx, lookups, beforeContent, afterContent>>

NextCli ==
  \/ GetDiffText
  \/ GetDiffTextFails
  \/ Next
  \/ SkipContext
  \/ BeginContext
  \/ SkipBinaryFile
  \/ EnrichFile
  \/ EnrichEnd
  \/ WriteStdout
  \/ WriteFile
  \/ WriteFileFails

SpecCli == CliInit /\ [][NextCli]_vars

-----------------------------------------------------------------------------
(* Two invocations of parseUnifiedDiff.  Every variable of the function    *)
(* (lines, files, current, i, oldNum, newNum and the totals) is declared   *)
(* inside it (lines 97-117, 155, 277-278, 341), so each invocation has its *)
(* own; the module holds no variable.  The invocation that is not running  *)
(* keeps its locals in `other`.                                            *)

\* the locals of the running invocation
Frame ==
  [lines |-> lines, i |-> i, current |-> current, files |-> files,
   oldNum |-> oldNum, newNum |-> newNum, pc |-> pc, totals |-> totals]

\* the locals of an invocation that was called with `text` and has not run
NewFrame(text) ==
  [lines |-> text, i |-> 0, current |-> None, files |-> <<>>,
   oldNum |-> 0, newNum |-> 0, pc |-> "outer", totals |-> NoTotals]

\* two invocations are called with the same text
InitTwo ==
  /\ lines \in CliInputs
  /\ i = 0
  /\ current = None
  /\ files = <<>>
  /\ oldNum = 0
  /\ newNum = 0
  /\ pc = "outer"
  /\ totals = NoTotals
  /\ CliIdle
  /\ MonIdle
  /\ other = Some(NewFrame(lines))

\* a switch in which `current` is a variable of the module, shared by the
\* two invocations
SwitchSharingCurrent ==
  /\ other # None
  /\ other' = Some(Frame)
  /\ lines' = other[1].lines
  /\ i' = other[1].i
  /\ files' = other[1].files
  /\ oldNum' = other[1].oldNum
  /\ newNum' = other[1].newNum
  /\ pc' = other[1].pc
  /\ totals' = other[1].totals
  /\ UNCHANGED <<current, cliVars, monVars>>

\* the running invocation is suspended and the other one runs
Switch ==
  /\ other # None
  /\ other' = Some(Frame)
  /\ lines' = other[1].lines
  /\ i' = other[1].i
  /\ current' = other[1].current
  /\ files' = other[1].files
  /\ oldNum' = other[1].oldNum
  /\ newNum' = other[1].newNum
  /\ pc' = other[1].pc
  /\ totals' = other[1].totals
  /\ UNCHANGED <<cliVars, monVars>>

NextTwo ==
  \/ Next
  \/ Switch

SpecTwo == InitTwo /\ [][NextTwo]_vars

-----------------------------------------------------------------------------
(* GitMonitor in folder-watch mode (git-monitor.ts).  A call of            *)
(* checkForChanges runs up to its first await in one step, then awaits     *)
(* `git status`, then `git diff`; the steps of several calls, of           *)
(* notifyLLMProcessingComplete and of edits to the repository interleave.  *)

MaxChecks == 2
MaxEmitted == 2

\* str.charCodeAt for the characters of the texts below
CharCode(c) ==
  CASE c = " " -> 32 [] c = "-" -> 45 [] c = "/" -> 47
    [] c = "A" -> 65 [] c = "B" -> 66
    [] c = "a" -> 97 [] c = "b" -> 98 [] c = "d" -> 100 [] c = "f" -> 102
    [] c = "g" -> 103 [] c = "i" -> 105 [] c = "t" -> 116 [] c = "x" -> 120

\* lines 306-313: every sampleRate-th character, from index 0
RECURSIVE SampleFrom(_, _, _)
SampleFrom(str, p, sampleRate) ==
  IF p > Len(str) THEN ""
  ELSE CharAt(str, p) \o SampleFrom(str, p + sampleRate, sampleRate)

\* lines 318-322 on a 32-bit integer kept as two 16-bit halves <<hi, lo>>:
\* ((hash << 5) - hash) + char is 31 * hash + char, and hash & hash keeps
\* its low 32 bits
RECURSIVE HashFrom(_, _, _)
HashFrom(str, p, hash) ==
  IF p > Len(str) THEN hash
  ELSE LET low == hash[2] * 31 + CharCode(CharAt(str, p))
           high == hash[1] * 31 + (low \div 65536)
       IN HashFrom(str, p + 1, <<high % 65536, low % 65536>>)

\* the signed value of the 32-bit integer <<hi, lo>>
Signed32(hash) ==
  IF hash[1] >= 32768 THEN (hash[1] - 65536) * 65536 + hash[2]
  ELSE hash[1] * 65536 + hash[2]

hashString(str) ==
  LET sampleRate == IF Len(str) \div 1000 > 1 THEN Len(str) \div 1000 ELSE 1
      sampled == IF Len(str) > 10000 THEN SampleFrom(str, 1, sampleRate) ELSE str
  IN IF Len(sampled) = 0 THEN "0"
     ELSE ToString(Signed32(HashFrom(sampled, 1, <<0, 0>>)))

\* the states of the watched repository: whether `git status --porcelain`
\* prints anything, and what `git diff` prints.  "Aa" and "BB" have the same
\* hash; the hash of the third text does not fit in 31 bits.
Repos ==
  {CleanRepo,
   [changes |-> TRUE, diff |-> ""],
   [changes |-> TRUE, diff |-> "Aa"],
   [changes |-> TRUE, diff |-> "BB"],
   [changes |-> TRUE, diff |-> "diff --git a/x b/x"]}

\* line 249: what truncateDiffIfNeeded may return for the output of git diff
\* (RepomixService is not part of the sources: the text as it is, or cut)
truncateDiffIfNeeded(stdout) ==
  {stdout} \cup (IF Len(stdout) > 2 THEN {SubSeq(stdout, 1, 2)} ELSE {})

DiffChanged(diffText) == [type |-> "diff-changed", diffText |-> diffText]
ErrorEvent == [type |-> "error", diffText |-> ""]

MonitorInit ==
  /\ lines = <<>>
  /\ i = 0
  /\ current = None
  /\ files = <<>>
  /\ oldNum = 0
  /\ newNum = 0
  /\ pc = "start"
  /\ totals = NoTotals
  /\ CliIdle
  /\ other = None
  /\ MonIdle

\* lines 128-139: checkForChanges up to its first await; it returns at once
\* when isProcessing is set
checkForChanges ==
  /\ inStatus + inDiff < MaxChecks
  /\ Len(emitted) < MaxEmitted
  /\ IF isProcessing
     THEN UNCHANGED <<isProcessing, inStatus>>
     ELSE /\ isProcessing' = TRUE
          /\ inStatus' = inStatus + 1
  /\ UNCHANGED <<lastDiffHash, consecutiveNoChanges, inDiff, emitted, repo>>
  /\ UNCHANGED <<lines, i, current, files, oldNum, newNum, pc, totals, cliVars, other>>

\* lines 110-112: a change, add or unlink event of the watcher
WatcherEvent == checkForChanges

\* lines 120-126: a tick of the poll timer
PollTick == checkForChanges

\* lines 51-54
manualRefresh == checkForChanges

\* lines 59-62
notifyLLMProcessingComplete ==
  /\ isProcessing' = FALSE
  /\ UNCHANGED <<lastDiffHash, consecutiveNoChanges, inStatus, inDiff, emitted, repo>>
  /\ UNCHANGED <<lines, i, current, files, oldNum, newNum, pc, totals, cliVars, other>>

\* lines 139-156 and 169-174: the await of hasGitChanges ends, with a
\* rejection (lines 204-206, 214-216) or with what git status printed
StatusDone ==
  /\ inStatus > 0
  /\ \E failed \in BOOLEAN :
       IF failed
       THEN /\ emitted' = Append(emitted, ErrorEvent)
            /\ inStatus' = inStatus - 1
            /\ isProcessing' = FALSE
            /\ UNCHANGED <<consecutiveNoChanges, inDiff>>
       ELSE IF ~repo.changes
       THEN /\ consecutiveNoChanges' =
                 IF consecutiveNoChanges + 1 > 10 THEN 0 ELSE consecutiveNoChanges + 1
            /\ inStatus' = inStatus - 1
            /\ isProcessing' = FALSE
            /\ UNCHANGED <<emitted, inDiff>>
       ELSE /\ consecutiveNoChanges' = 0
            /\ inStatus' = inStatus - 1
            /\ inDiff' = inDiff + 1
            /\ UNCHANGED <<emitted, isProcessing>>
  /\ UNCHANGED <<lastDiffHash, repo>>
  /\ UNCHANGED <<lines, i, current, files, oldNum, newNum, pc, totals, cliVars, other>>

\* an end of the await of getCurrentGitDiff that emits whatever the hash is
DiffDoneAlwaysEmitting ==
  /\ inDiff > 0
  /\ \E failed \in BOOLEAN, diffText \in truncateDiffIfNeeded(repo.diff) :
       IF failed
       THEN /\ emitted' = Append(emitted, ErrorEvent)
            /\ UNCHANGED lastDiffHash
       ELSE /\ lastDiffHash' = hashString(diffText)
            /\ emitted' = Append(emitted, DiffChanged(diffText))
  /\ inDiff' = inDiff - 1
  /\ isProcessing' = FALSE
  /\ UNCHANGED <<consecutiveNoChanges, inStatus, repo>>
  /\ UNCHANGED <<lines, i, current, files, oldNum, newNum, pc, totals, cliVars, other>>

\* lines 159-174: the await of getCurrentGitDiff ends, with a rejection
\* (lines 243-245, 283-285) or with the diff data
DiffDone ==
  /\ inDiff > 0
  /\ \E failed \in BOOLEAN, diffText \in truncateDiffIfNeeded(repo.diff) :
       IF failed
       THEN /\ emitted' = Append(emitted, ErrorEvent)
            /\ UNCHANGED lastDiffHash
       ELSE LET diffHash == hashString(diffText)
            IN IF diffHash # lastDiffHash
               THEN /\ lastDiffHash' = diffHash
                    /\ emitted' = Append(emitted, DiffChanged(diffText))
               ELSE UNCHANGED <<lastDiffHash, emitted>>
  /\ inDiff' = inDiff - 1
  /\ isProcessing' = FALSE
  /\ UNCHANGED <<consecutiveNoChanges, inStatus, repo>>
  /\ UNCHANGED <<lines, i, current, files, oldNum, newNum, pc, totals, cliVars, other>>

\* somebody edits, stages or reverts files of the watched folder
RepoChanges ==
  /\ repo' \in Repos \ {repo}
  /\ UNCHANGED <<isProcessing, lastDiffHash, consecutiveNoChanges, inStatus, inDiff,
                 emitted>>
  /\ UNCHANGED <<lines, i, current, files, oldNum, newNum, pc, totals, cliVars, other>>

MonitorNext ==
  \/ WatcherEvent
  \/ PollTick
  \/ manualRefresh
  \/ notifyLLMProcessingComplete
  \/ StatusDone
  \/ DiffDone
  \/ RepoChanges

SpecMonitor == MonitorInit /\ [][MonitorNext]_vars

-----------------------------------------------------------------------------
(* The equivalence verifier (tokenizeRawDiffHunks, tokenizeBasicHunks and  *)
(* the tolerance loop of main)                                             *)

HeaderToken(h) == [type |-> "header", header |-> h, op |-> "", text |-> "", noNewline |-> FALSE]

LineToken(op, text, nn) ==
  [type |-> "line", header |-> "", op |-> op, text |-> text, noNewline |-> nn]

\* the tokens of raw lines ls from 0-based index k on
RECURSIVE RawTokensFrom(_, _)
RawTokensFrom(ls, k) ==
  IF k >= Len(ls) THEN <<>>
  ELSE
    LET line == ls[k + 1]
        c0 == CharAt(line, 1)
        noNewline == k + 1 < Len(ls) /\ ls[k + 2] = NoNewlineMarkerText
    IN IF startsWith(line, "@@ ") THEN <<HeaderToken(line)>> \o RawTokensFrom(ls, k + 1)
       ELSE IF Len(line) > 0 /\ c0 \in {" ", "+", "-"}
       THEN IF startsWith(line, "--- ") \/ startsWith(line, "+++ ")
            THEN RawTokensFrom(ls, k + 1)
            ELSE <<LineToken(IF c0 = " " THEN "context" ELSE IF c0 = "+" THEN "add" ELSE "del",
                             substring(line, 1), noNewline)>>
                 \o RawTokensFrom(ls, IF noNewline THEN k + 2 ELSE k + 1)
       ELSE RawTokensFrom(ls, k + 1)

tokenizeRawDiffHunks(ls) == RawTokensFrom(ls, 0)

HunkTokens(h) ==
  LET oldSeg == ToString(h.oldStart) \o (IF h.oldLines # 0 THEN "," \o ToString(h.oldLines) ELSE "")
      newSeg == ToString(h.newStart) \o (IF h.newLines # 0 THEN "," \o ToString(h.newLines) ELSE "")
      header == IF h.rawHeader # "" THEN h.rawHeader
                ELSE "@@ -" \o oldSeg \o " +" \o newSeg \o " @@"
  IN <<HeaderToken(header)>> \o
     [k \in 1..Len(h.lines) |->
        LineToken(h.lines[k].op, h.lines[k].text, h.lines[k].noNewlineAtEndOfFile)]

RECURSIVE HunksTokens(_)
HunksTokens(hs) == IF Len(hs) = 0 THEN <<>> ELSE HunkTokens(hs[1]) \o HunksTokens(Tail(hs))

RECURSIVE tokenizeBasicHunks(_)
tokenizeBasicHunks(fs) ==
  IF Len(fs) = 0 THEN <<>> ELSE HunksTokens(fs[1].hunks) \o tokenizeBasicHunks(Tail(fs))

\* main, lines 143-150: trailing empty context tokens are popped
RECURSIVE DropTrailingEmptyContext(_)
DropTrailingEmptyContext(ts) ==
  IF /\ Len(ts) > 0
     /\ ts[Len(ts)].type = "line"
     /\ ts[Len(ts)].op = "context"
     /\ ts[Len(ts)].text = ""
  THEN DropTrailingEmptyContext(SubSeq(ts, 1, Len(ts) - 1))
  ELSE ts

\* main, lines 138-140 and 143-150, for the document of the finished parse
tokensBasic == DropTrailingEmptyContext(tokenizeBasicHunks(files))

tokensCanon == tokenizeRawDiffHunks(lines)

\* main, lines 158-167: whether the loop body throws for tokens a and b
TokensMismatch(a, b) ==
  IF a.type # b.type THEN TRUE
  ELSE IF a.type = "header" THEN a.header # b.header
  ELSE (a.op # b.op \/ a.text # b.text) \/ a.noNewline # b.noNewline

\* main, lines 172-173: slice(-5) and the rendering of each token
TailWindow(ts) ==
  LET from == IF Len(ts) > 5 THEN Len(ts) - 4 ELSE 1
  IN [k \in 1..(Len(ts) - from + 1) |->
        LET t == ts[from + k - 1]
        IN IF t.type = "header" THEN "H:" \o t.header
           ELSE "L:" \o t.op \o ":" \o ToString(Len(t.text))]

\* main, lines 153-175: the outcome of the comparison of token lists a and b.
\* `index` is the index the error message names, tailA and tailB the windows
\* it prints (None when the message has none).
CompareTokens(a, b) ==
  LET compareLen == IF Len(a) < Len(b) THEN Len(a) ELSE Len(b)
      throwing == {k \in 0..(compareLen - 1) : TokensMismatch(a[k + 1], b[k + 1])}
      mismatchIndex == IF compareLen > 0 THEN (compareLen - 1) + 1 ELSE -1
  IN IF throwing # {}
     THEN [failed |-> TRUE,
           index |-> Some(CHOOSE k \in throwing : \A o \in throwing : k <= o),
           tailA |-> None,
           tailB |-> None]
     ELSE IF Len(a) # Len(b)
     THEN [failed |-> TRUE,
           index |-> Some(mismatchIndex),
           tailA |-> Some(TailWindow(a)),
           tailB |-> Some(TailWindow(b))]
     ELSE [failed |-> FALSE, index |-> None, tailA |-> None, tailB |-> None]

-----------------------------------------------------------------------------
(* The finished document and the file blocks of the input                  *)

Done == pc = "done"

IsBoundary(l) == startsWith(l, "diff --git ")

\* the positions (1-based) of the file-boundary lines among the first k lines
BoundariesUpTo(k) == {b \in 1..k : IsBoundary(lines[b])}

Boundaries == BoundariesUpTo(Len(lines))

\* the position of the n-th file-boundary line
NthBoundary(n) == CHOOSE b \in Boundaries : Cardinality(BoundariesUpTo(b)) = n

\* the input lines of the n-th file block
BlockLines(n) ==
  LET from == NthBoundary(n)
      later == {b \in Boundaries : b > from}
      to == IF later = {} THEN Len(lines) ELSE (CHOOSE b \in later : \A c \in later : b <= c) - 1
  IN SubSeq(lines, from, to)

-----------------------------------------------------------------------------
(* Claims                                                                  *)

\* C1: round-trip fidelity.  For every valid raw diff, the tokens of the parsed
\* document, after the trailing empty context tokens are dropped, are
\* element by element the tokens of the raw text.
RoundTripFidelity == (Done /\ lines \in ValidInputs) => tokensBasic = tokensCanon

\* C2: in the finished document a context line carries both line numbers, an
\* add line only the new one and a del line only the old one.
LineNumbersByOp ==
  Done =>
    \A f \in 1..Len(files) : \A h \in 1..Len(files[f].hunks) :
      \A k \in 1..Len(files[f].hunks[h].lines) :
        LET l == files[f].hunks[h].lines[k]
        IN /\ l.op = "context" => (l.oldNumber # None /\ l.newNumber # None)
           /\ l.op = "add" => (l.oldNumber = None /\ l.newNumber # None)
           /\ l.op = "del" => (l.oldNumber # None /\ l.newNumber = None)

\* C3: rawPatch of the n-th FileDiff is the newline-join of every input line of
\* the n-th file block, hunk body lines included.
RawPatchVerbatim ==
  Done => \A n \in 1..Len(files) : files[n].rawPatch = join(BlockLines(n), "\n")

\* C4: at every step the finalized FileDiff entries plus the one in-progress
\* record (if any) are exactly the file-boundary lines read so far, in input
\* order; when the parse is done no record is in progress, so the document has
\* one FileDiff per 'diff --git ' line, the n-th for the n-th such line.
OneFilePerBoundary ==
  LET seen == BoundariesUpTo(i)
  IN /\ Len(files) + Len(current) = Cardinality(seen)
     /\ \A n \in 1..Len(files) : FirstLine(files[n].rawPatch) = lines[NthBoundary(n)]
     /\ current # None => current[1].rawLines[1] = lines[NthBoundary(Len(files) + 1)]
     /\ Done => (current = None /\ Len(files) = Cardinality(Boundaries))

\* C4 witness: a finished parse of two blocks with different boundary lines
TwoBlocksParsed ==
  /\ Done
  /\ Len(files) = 2
  /\ FirstLine(files[1].rawPatch) # FirstLine(files[2].rawPatch)

\* C5: the FileDiff entries of one document have pairwise distinct ids.
DistinctFileIds ==
  Done => \A m, n \in 1..Len(files) : m # n => files[m].id # files[n].id

FiveFields(f) == <<f.pathOld, f.pathNew, f.status, f.modeBefore, f.modeAfter>>

\* C6: the file id is a function of (pathOld, pathNew, status, modeBefore,
\* modeAfter) alone: two FileDiff entries equal in these five fields have equal
\* ids, and every id is the hash of the five fields joined by '|' after the
\* (empty) seed, whatever the entry's position, hunks, oids, similarity index
\* or binary flag.
FileIdPure ==
  /\ \A m, n \in 1..Len(files) :
       FiveFields(files[m]) = FiveFields(files[n]) => files[m].id = files[n].id
  /\ \A n \in 1..Len(files) :
       LET f == files[n]
       IN f.id = stableHash(join(<<"", OrElse(f.pathOld, ""), OrElse(f.pathNew, ""), f.status,
                                   OrElse(f.modeBefore, ""), OrElse(f.modeAfter, "")>>, "|"))

\* C6 witness: two entries of a finished document with the same five fields and
\* the same id that differ in their hunks
SameFieldsDifferentHunks ==
  /\ Done
  /\ \E m, n \in 1..Len(files) :
       /\ m < n
       /\ FiveFields(files[m]) = FiveFields(files[n])
       /\ files[m].hunks # files[n].hunks
       /\ files[m].pathOld # None
       /\ files[m].id = files[n].id

HunkKey(f, k) ==
  LET h == files[f].hunks[k]
  IN <<files[f].pathOld, files[f].pathNew, k - 1, h.oldStart, h.oldLines, h.newStart,
       h.newLines, h.sectionHeading>>

\* C7: the hunk id is a function of (the finished FileDiff's pathOld and
\* pathNew, the hunk's index, the four range numbers, the section heading):
\* two hunks equal in these have equal ids.
HunkIdPure ==
  Done =>
    \A f, g \in 1..Len(files) :
      \A k \in 1..Len(files[f].hunks) : \A j \in 1..Len(files[g].hunks) :
        HunkKey(f, k) = HunkKey(g, j) => files[f].hunks[k].id = files[g].hunks[j].id

\* the lines of the n-th block before its first hunk header
HeaderRegion(n) ==
  LET b == BlockLines(n)
      hs == {k \in 1..Len(b) : HunkHeaderMatch(b[k]) # None}
  IN IF hs = {} THEN b ELSE SubSeq(b, 1, (CHOOSE k \in hs : \A j \in hs : k <= j) - 1)

HasLine(ls, prefix) == \E k \in 1..Len(ls) : startsWith(ls[k], prefix)

StatusValues == {"renamed", "copied", "added", "deleted", "modified"}

\* the precedence of the claim
ClaimedStatus(renameMarkers, copyMarkers, pathOld, pathNew) ==
  CASE renameMarkers -> "renamed"
    [] ~renameMarkers /\ copyMarkers -> "copied"
    [] ~renameMarkers /\ ~copyMarkers /\ pathOld = Some("/dev/null") -> "added"
    [] ~renameMarkers /\ ~copyMarkers /\ pathOld # Some("/dev/null")
         /\ pathNew = Some("/dev/null") -> "deleted"
    [] OTHER -> "modified"

\* the status of every finalized block whose rename/copy markers (if any) stand
\* in its header, as git writes them
StatusOfMarkedBlocks ==
  \A n \in 1..Len(files) :
    LET f == files[n]
        renameHdr == HasLine(HeaderRegion(n), "rename from ")
        copyHdr == HasLine(HeaderRegion(n), "copy from ")
        renameAny == HasLine(BlockLines(n), "rename from ")
        copyAny == HasLine(BlockLines(n), "copy from ")
    IN /\ f.status \in StatusValues
       /\ (renameHdr = renameAny /\ copyHdr = copyAny) =>
            f.status = ClaimedStatus(renameHdr, copyHdr, f.pathOld, f.pathNew)

\* the status given at finalization, from the markers recorded for the block
StatusAtFinalize ==
  Len(files') > Len(files) =>
    LET f == files'[Len(files')]
        c == current[1]
    IN f.status = ClaimedStatus(c.sawRenameFrom, c.sawCopyFrom, f.pathOld, f.pathNew)

IsBinaryMarker(l) == startsWith(l, "Binary files ") \/ l = "GIT binary patch"

\* C9: a block with a binary marker yields isBinary = true and no hunks; a
\* block without one yields isBinary = false.
BinaryBlocksHaveNoHunks ==
  Done =>
    \A n \in 1..Len(files) :
      IF \E k \in 1..Len(BlockLines(n)) : IsBinaryMarker(BlockLines(n)[k])
      THEN files[n].isBinary /\ files[n].hunks = <<>> /\ files[n].stats.hunks = 0
      ELSE ~files[n].isBinary

\* the sum of g over the entries, last entry first
RECURSIVE SumBack(_, _)
SumBack(ns, k) == IF k = 0 THEN 0 ELSE SumBack(ns, k - 1) + ns[k]

\* C10: the totals are the sums of the per-file stats, the number of binary
\* files and the number of FileDiff entries.
TotalsAreSums ==
  Done =>
    LET n == Len(files)
    IN /\ totals.additions = SumBack([k \in 1..n |-> files[k].stats.additions], n)
       /\ totals.deletions = SumBack([k \in 1..n |-> files[k].stats.deletions], n)
       /\ totals.hunks = SumBack([k \in 1..n |-> files[k].stats.hunks], n)
       /\ totals.binaryFilesChanged = Cardinality({k \in 1..n : files[k].isBinary})
       /\ totals.filesChanged = n

\* C10 witness: a finished document of two files, one binary, with additions,
\* deletions and hunks to sum
TotalsOfTwoFiles ==
  /\ Done
  /\ Len(files) = 2
  /\ files[1].isBinary # files[2].isBinary
  /\ totals.additions > 0
  /\ totals.deletions > 0
  /\ totals.hunks > 0

-----------------------------------------------------------------------------
(* The hunk bodies of the input, read off the input lines                  *)

\* the lines at which the collection of hunk lines stops
EndsHunkBody(l) ==
  \/ startsWith(l, "diff --git ")
  \/ startsWith(l, "@@ ")
  \/ startsWith(l, "index ")
  \/ startsWith(l, "Binary files ")
  \/ startsWith(l, "GIT binary patch")

\* the positions of the hunk headers of the file blocks
HunkHeaderPositions ==
  {p \in 1..Len(lines) : BoundariesUpTo(p) # {} /\ OuterKind(lines[p]) = "hunkHeader"}

\* the position of the last line of the body of the hunk whose header is at p
BodyEnd(p) ==
  CHOOSE q \in p..Len(lines) :
    /\ \A r \in (p + 1)..q : ~EndsHunkBody(lines[r])
    /\ q < Len(lines) => EndsHunkBody(lines[q + 1])

\* the positions of the body lines other than the no-newline marker
ContentPositions(p) == {r \in (p + 1)..BodyEnd(p) : lines[r] # NoNewlineMarkerText}

\* the members of a set of numbers in increasing order
RECURSIVE SortedSeq(_)
SortedSeq(S) ==
  IF S = {} THEN <<>>
  ELSE LET least == CHOOSE x \in S : \A y \in S : x <= y
       IN <<least>> \o SortedSeq(S \ {least})

\* the hunks of the document, file after file
AllHunks == Flatten([f \in 1..Len(files) |-> files[f].hunks])

\* the content positions at or before r in the body of the hunk headed at p
\* whose first character is in `prefixes`
CountBefore(p, r, prefixes) ==
  Cardinality({q \in ContentPositions(p) : q < r /\ CharAt(lines[q], 1) \in prefixes})

\* the content lines of all hunk bodies whose first character is c
ContentLinesWith(c) ==
  UNION {{r \in ContentPositions(p) : CharAt(lines[r], 1) = c} : p \in HunkHeaderPositions}

\* C11: the hunk lines of the document are, in order, the body lines of the
\* input other than the no-newline marker; a hunk line is flagged exactly when
\* the input line it was parsed from is immediately followed by the marker
\* line; the marker line changes no line number, addition or deletion count.
NoNewlinePropagation ==
  Done =>
    LET hp == SortedSeq(HunkHeaderPositions)
    IN /\ Len(AllHunks) = Len(hp)
       /\ \A j \in 1..Len(hp) :
            LET cs == SortedSeq(ContentPositions(hp[j]))
                h == AllHunks[j]
            IN /\ Len(h.lines) = Len(cs)
               /\ \A k \in 1..Len(cs) :
                    LET l == h.lines[k]
                        r == cs[k]
                    IN /\ l.text = substring(lines[r], 1)
                       /\ l.noNewlineAtEndOfFile =
                            (IF r < Len(lines) THEN lines[r + 1] = NoNewlineMarkerText
                             ELSE FALSE)
                       /\ l.oldNumber # None =>
                            l.oldNumber[1] = h.oldStart + CountBefore(hp[j], r, {" ", "-"})
                       /\ l.newNumber # None =>
                            l.newNumber[1] = h.newStart + CountBefore(hp[j], r, {" ", "+"})
       /\ totals.additions = Cardinality(ContentLinesWith("+"))
       /\ totals.deletions = Cardinality(ContentLinesWith("-"))

\* C11 witness: a finished hunk with a flagged line, an unflagged line and a
\* line that follows a marker
FlaggedAndUnflaggedLines ==
  /\ Done
  /\ \E j \in 1..Len(AllHunks) :
       LET ls == AllHunks[j].lines
       IN \E a, b \in 1..Len(ls) :
            /\ a < b
            /\ ~ls[a].noNewlineAtEndOfFile
            /\ ls[b].noNewlineAtEndOfFile
            /\ b < Len(ls)

\* C12: as long as no file-boundary line has been read, no file record is in
\* progress, no file, hunk or total exists and no line counter has moved; so
\* input without a boundary line ends as the empty document with zero totals,
\* and the lines before the first boundary leave no trace.
PreludeIgnored ==
  BoundariesUpTo(i) = {} =>
    /\ current = None
    /\ files = <<>>
    /\ oldNum = 0
    /\ newNum = 0
    /\ totals = NoTotals
    /\ pc \in {"outer", "done"}

\* C12 witness: a parse that finished on input without a boundary line but with
\* a hunk header and an added line
PreludeOnlyParsed ==
  /\ Done
  /\ Boundaries = {}
  /\ \E a, b \in 1..Len(lines) :
       /\ a < b
       /\ HunkHeaderMatch(lines[a]) # None
       /\ CharAt(lines[b], 1) = "+"

\* C13: every hunk of the finished document carries a content hash.
EveryHunkHasContentHash ==
  Done => \A j \in 1..Len(AllHunks) : AllHunks[j].contentHash # None

\* the least index (0-based) at which token lists a and b differ or at which
\* exactly one of them has ended
FirstDivergence(a, b) ==
  LET longest == IF Len(a) > Len(b) THEN Len(a) ELSE Len(b)
      diverging == {k \in 0..(longest - 1) :
                      IF k < Len(a) /\ k < Len(b) THEN a[k + 1] # b[k + 1] ELSE TRUE}
  IN CHOOSE k \in diverging : \A o \in diverging : k <= o

\* the last five entries of a token list, as the diagnostic renders them
LastFive(ts) ==
  [k \in 1..(IF Len(ts) > 5 THEN 5 ELSE Len(ts)) |->
     LET t == ts[Len(ts) - (IF Len(ts) > 5 THEN 5 ELSE Len(ts)) + k]
     IN IF t.type = "header" THEN "H:" \o t.header
        ELSE "L:" \o t.op \o ":" \o ToString(Len(t.text))]

\* C17: the verifier succeeds when the two token lists are identical, and
\* otherwise fails with a diagnostic that names the first diverging index and
\* carries the last five tokens of both lists.
VerifierDiagnostic ==
  Done =>
    LET outcome == CompareTokens(tokensBasic, tokensCanon)
    IN IF tokensBasic = tokensCanon THEN ~outcome.failed
       ELSE /\ outcome.failed
            /\ outcome.index = Some(FirstDivergence(tokensBasic, tokensCanon))
            /\ outcome.tailA = Some(LastFive(tokensBasic))
            /\ outcome.tailB = Some(LastFive(tokensCanon))

\* C20: the input line from which the newest line of the hunk under
\* construction was made is no hunk header, file boundary, file-metadata line
\* or binary marker.
NoMarkerAsHunkLine ==
  (/\ pc = "inner"
   /\ Len(current[1].hunks[LastHunk].lines) > 0
   /\ lines[i] # NoNewlineMarkerText)
  => OuterKind(lines[i]) = "other"

-----------------------------------------------------------------------------
(* Claims about the command                                                *)

\* the git process was run and exited with a non-zero code
GitFailed == IF git = None THEN FALSE ELSE git[1].code # 0

WriteError == "EACCES: permission denied, open 'out.json'"

\* the file whose lookups are in `lookups` (the last one of the loop so far)
LastEnriched == files[fileIdx]

AtLastEnriched ==
  IF lookups # None /\ fileIdx > 0 THEN ~LastEnriched.isBinary ELSE FALSE

\* no lookup among `names` of the last enriched file resolved
NoneResolved(names) == \A n \in names : lookups[1][n].status # "ok"

\* the slice of side `side` attached to hunk h (None: no slice)
SliceOf(h, side) == IF h.attachments = None THEN None ELSE h.attachments[1].context[side]

\* C14: whatever the content lookups do, no error of theirs leaves the
\* enricher (the only errors after it has started are write errors), the loop
\* reaches the last file, and a side of a file for which no lookup resolved
\* has no slice on any hunk while a side with content has one on every hunk.
ContextFailuresCaught ==
  /\ (lookups # None /\ thrown # None) => thrown = Some(WriteError)
  /\ (lookups # None /\ pc \in {"write", "exit"}) => fileIdx = Len(files)
  /\ AtLastEnriched =>
       \A h \in 1..Len(LastEnriched.hunks) :
         /\ SliceOf(LastEnriched.hunks[h], "before") = None
              <=> NoneResolved({"beforeBlob", "baseRef"})
         /\ SliceOf(LastEnriched.hunks[h], "after") = None
              <=> NoneResolved({"afterBlob", "headRef", "workTree"})

\* C14 witness: the command returned 0 after every lookup of its first file
\* threw and a lookup of its second file resolved
SecondFileEnrichedAfterFailures ==
  /\ exitCode = Some(0)
  /\ Len(files) = 2
  /\ files[1].hunks # <<>> /\ files[1].hunks[1].attachments = None
  /\ files[2].hunks # <<>> /\ files[2].hunks[1].attachments # None
  /\ AtLastEnriched /\ lookups[1].afterBlob.status = "threw"

\* the content of the first lookup among `names` (in order) that resolved
RECURSIVE FirstResolved(_)
FirstResolved(names) ==
  IF names = <<>> THEN None
  ELSE IF lookups[1][names[1]].status = "ok" THEN Some(lookups[1][names[1]].content)
  ELSE FirstResolved(Tail(names))

\* C15: each side is resolved by its own priority list, whatever happens on
\* the other side: the lookup by oid is made for every side that has an oid,
\* the before content is that of the oid lookup if it resolved and else that
\* of the lookup at baseRef, the after content is that of the oid lookup if it
\* resolved, else that of the lookup at headRef, else that of the working tree.
PerSidePriority ==
  AtLastEnriched =>
    /\ LastEnriched.attachments.before # None => lookups[1].beforeBlob.status # "skipped"
    /\ LastEnriched.attachments.after # None => lookups[1].afterBlob.status # "skipped"
    /\ beforeContent = FirstResolved(<<"beforeBlob", "baseRef">>)
    /\ afterContent = FirstResolved(<<"afterBlob", "headRef", "workTree">>)

\* file b with the attachments of its hunks replaced by those of file a's hunks
WithAttachmentsOf(a, b) ==
  IF Len(a.hunks) # Len(b.hunks) THEN b
  ELSE [b EXCEPT !.hunks =
          [h \in DOMAIN @ |-> [@[h] EXCEPT !.attachments = a.hunks[h].attachments]]]

\* C16: from the end of the parse until the document is written, a step
\* changes nothing of the document but the attachments of hunks: the totals,
\* the number and order of the files and, apart from hunk attachments, every
\* field of every file and hunk (ids, paths, status, stats, rawPatch, ranges,
\* section heading, rawHeader, lines, content hash) stay as they are.
EnricherFrame ==
  [][(pc \in {"done", "enrich"}) =>
       (totals' = totals /\ Len(files') = Len(files) /\
        (\A f \in 1..Len(files) : files[f] = WithAttachmentsOf(files[f], files'[f])))]_vars

\* C16 witness: the enricher has attached a context with both slices to a hunk
ContextAttached ==
  /\ pc = "enrich"
  /\ fileIdx > 0
  /\ \E h \in 1..Len(files[fileIdx].hunks) :
       /\ SliceOf(files[fileIdx].hunks[h], "before") # None
       /\ SliceOf(files[fileIdx].hunks[h], "after") # None

-----------------------------------------------------------------------------
(* Claims about two invocations                                            *)

-----------------------------------------------------------------------------
(* Claims about hunk lines, hunk headers and per-file stats                *)

\* the number of lines before the k-th line of hunk h whose op is in `ops`
OpsBefore(h, k, ops) == Cardinality({j \in 1..(k - 1) : h.lines[j].op \in ops})

\* C21: in every hunk of the finished document a context line carries the
\* old and the new counter, an add line the new one only and a del line the
\* old one only, where the old counter is oldStart plus the number of earlier
\* context and del lines and the new counter is newStart plus the number of
\* earlier context and add lines.
CountersByOp ==
  Done =>
    \A n \in 1..Len(AllHunks) :
      LET h == AllHunks[n]
      IN \A k \in 1..Len(h.lines) :
           LET l == h.lines[k]
               old == Some(h.oldStart + OpsBefore(h, k, {"context", "del"}))
               new == Some(h.newStart + OpsBefore(h, k, {"context", "add"}))
           IN /\ l.op = "context" => (l.oldNumber = old /\ l.newNumber = new)
              /\ l.op = "add" => (l.oldNumber = None /\ l.newNumber = new)
              /\ l.op = "del" => (l.oldNumber = old /\ l.newNumber = None)

\* the range `start[,count]` as a header writes it, with the count or without
RangeText(start, count, written) ==
  ToString(start) \o (IF written THEN "," \o ToString(count) ELSE "")

\* the header texts (up to the closing @@) that stand for the ranges of
\* hunk h: a count may be left out only when it is 1
HeaderTexts(h) ==
  {"@@ -" \o RangeText(h.oldStart, h.oldLines, wo) \o " +"
          \o RangeText(h.newStart, h.newLines, wn) \o " @@" :
     wo \in {w \in BOOLEAN : ~w => h.oldLines = 1},
     wn \in {w \in BOOLEAN : ~w => h.newLines = 1}}

\* C22: every hunk of the finished document keeps its header line unchanged
\* as rawHeader; its four range numbers are the ones the header writes, with
\* a count of 1 where the header omits it and 0 where it writes 0; and its
\* section heading is the trimmed text after the closing @@, absent when
\* that text is blank.
HeaderFieldsParsed ==
  Done =>
    LET hp == SortedSeq(HunkHeaderPositions)
    IN /\ Len(AllHunks) = Len(hp)
       /\ \A n \in 1..Len(hp) :
            LET h == AllHunks[n]
                line == lines[hp[n]]
            IN /\ h.rawHeader = line
               /\ \E t \in HeaderTexts(h) :
                    /\ startsWith(line, t)
                    /\ LET rest == trim(substring(line, Len(t)))
                       IN h.sectionHeading = IF rest = "" THEN None ELSE Some(rest)

\* C22 witness: a finished document with a hunk whose header writes a count of
\* 0 and omits the other count, and a hunk whose header has a heading
ZeroAndOmittedCounts ==
  /\ Done
  /\ \E a, b \in 1..Len(AllHunks) :
       /\ AllHunks[a].rawHeader = "@@ -0,0 +1 @@"
       /\ AllHunks[a].oldLines = 0
       /\ AllHunks[a].newLines = 1
       /\ AllHunks[b].sectionHeading = Some("f")

\* a line that no rule of the format knows: its first character is none of
\* space, + and -, and it is no boundary, header, metadata or marker line
Unrecognised(l) ==
  /\ CharAt(l, 1) \notin {" ", "+", "-"}
  /\ OuterKind(l) = "other"
  /\ ~EndsHunkBody(l)
  /\ l # NoNewlineMarkerText

\* the parser is inside a hunk, at an unrecognised line
AtUnrecognisedHunkLine ==
  IF pc = "inner" /\ i < Len(lines) THEN Unrecognised(Line) ELSE FALSE

\* the step taken at an unrecognised line of a hunk: the line becomes the next
\* HunkLine of the same hunk, a context line without numbers; the counts of
\* additions and deletions, the counters, the other hunks and the finished
\* files stay as they are, and the parse is still in the hunk, at the next line
UnrecognisedBecomesContext ==
  AtUnrecognisedHunkLine =>
    LET before == current[1].hunks[LastHunk].lines
        entry == [id |-> ToString(Len(before) + 1), op |-> "context",
                  text |-> substring(Line, 1), oldNumber |-> None, newNumber |-> None,
                  noNewlineAtEndOfFile |-> FALSE]
    IN /\ current' = Some([current[1] EXCEPT !.hunks[LastHunk].lines = Append(before, entry)])
       /\ pc' = "inner"
       /\ i' = i + 1
       /\ UNCHANGED <<files, oldNum, newNum, totals>>

\* C23: an unrecognised line inside a hunk never stops the parse (the step
\* that consumes it is enabled), and that step makes it one context HunkLine
\* of the hunk, leaves additions and deletions alone and goes on with the
\* next line in the same hunk.
UnrecognisedLineIsContext ==
  /\ [](AtUnrecognisedHunkLine => ENABLED HunkLineStep)
  /\ [][UnrecognisedBecomesContext]_vars

\* C23 witness: the parse is inside a hunk whose newest line was made from
\* the input line 'oops'
OopsIsContextLine ==
  /\ pc = "inner"
  /\ i > 0
  /\ LET ls == current[1].hunks[LastHunk].lines
     IN /\ Len(ls) > 0
        /\ lines[i] = "oops"
        /\ ls[Len(ls)].op = "context"
        /\ ls[Len(ls)].text = "ops"
        /\ current[1].additions = 0 /\ current[1].deletions = 0

-----------------------------------------------------------------------------
(* Claims about the context slices and the radius                          *)

\* the lower and the upper end of the index interval of a slice of n lines
SliceLow(s, r) == IF s - 1 - r > 0 THEN s - 1 - r ELSE 0
SliceHigh(n, s, c, r) == IF n < s - 1 + c + r THEN n ELSE s - 1 + c + r

\* the lines of `all` with 0-based index in [lo, hi), in order
LinesBetween(all, lo, hi) == [k \in 1..(IF hi > lo THEN hi - lo ELSE 0) |-> all[lo + k]]

\* the slice `got` is the one of start s, count c and radius r out of `content`
SliceAsStated(got, content, s, c, r) ==
  IF content = None THEN got = None
  ELSE LET all == content[1]
           lo == SliceLow(s, r)
           hi == SliceHigh(Len(all), s, c, r)
       IN /\ got = Some(LinesBetween(all, lo, hi))
          /\ lo >= 0
          /\ hi \in 0..Len(all)
          /\ \A j \in lo..(hi - 1) : j \in 0..(Len(all) - 1)
          /\ Len(got[1]) <= c + 2 * r

-----------------------------------------------------------------------------
(* Claims about line ids and per-file stats                                *)

\* the hunks of the finished files followed by those of the open file
HunksSoFar == AllHunks \o (IF current = None THEN <<>> ELSE current[1].hunks)

\* C25: at every moment of the parse, in every hunk built so far the k-th
\* line has the id k written as a string, so the ids of a hunk of n lines are
\* "1" .. "n" without gaps or repeats, no-newline markers or not.
LineIdsAreSequenceNumbers ==
  \A n \in 1..Len(HunksSoFar) :
    \A k \in 1..Len(HunksSoFar[n].lines) : HunksSoFar[n].lines[k].id = ToString(k)

\* C25 witness: a finished hunk of three lines with ids "1", "2", "3" whose
\* second and third lines were each followed by a no-newline marker
IdsAcrossMarkers ==
  /\ Done
  /\ \E n \in 1..Len(AllHunks) :
       LET ls == AllHunks[n].lines
       IN /\ Len(ls) = 3
          /\ <<ls[1].id, ls[2].id, ls[3].id>> = <<"1", "2", "3">>
          /\ ~ls[1].noNewlineAtEndOfFile
          /\ ls[2].noNewlineAtEndOfFile
          /\ ls[3].noNewlineAtEndOfFile

-----------------------------------------------------------------------------
(* Claims about the radius gate                                            *)

\* the radius each value of --context-radius stands for: the number given,
\* 20 when the option is absent, 0 when it is negative or not a number
StatedRadius(opt) ==
  CASE opt = "" -> 20
    [] opt = "1" -> 1
    [] opt = "0" -> 0
    [] opt = "-1" -> 0
    [] opt = "abc" -> 0

ContextSkipped == options.noContext \/ StatedRadius(options.contextRadiusOpt) = 0

\* the hunks of the files so far that carry a context attachment
HunksWithContext ==
  UNION {{<<f, h>> : h \in {k \in 1..Len(files[f].hunks) :
                                  files[f].hunks[k].attachments # None}} :
         f \in 1..Len(files)}

\* C26: with --no-context or a radius of 0 (also from a negative or
\* non-numeric --context-radius) no lookup is ever made and no hunk ever has
\* a context attachment; otherwise the enricher has gone through all files
\* before the document is written, it made lookups if there is a file that is
\* not binary, and every attachment records the given radius (20 by default).
\* No hunk of a binary file ever has a context attachment.
RadiusGate ==
  /\ ContextSkipped => (lookups = None /\ HunksWithContext = {})
  /\ (~ContextSkipped /\ pc = "write") =>
       /\ fileIdx = Len(files)
       /\ (\E f \in 1..Len(files) : ~files[f].isBinary) => lookups # None
       /\ \A fh \in HunksWithContext :
            files[fh[1]].hunks[fh[2]].attachments[1].context.radius
              = StatedRadius(options.contextRadiusOpt)
  /\ \A fh \in HunksWithContext : ~files[fh[1]].isBinary

\* C26 witness: run with the default radius, the document about to be
\* written has a binary file with a hunk and no attachment, and a text file
\* whose hunk has the attachment of radius 20
BinarySkippedTextEnriched ==
  /\ pc = "write"
  /\ options.contextRadiusOpt = "" /\ ~options.noContext
  /\ Len(files) = 2
  /\ files[1].isBinary /\ Len(files[1].hunks) = 1
  /\ HunksWithContext = {<<2, 1>>}
  /\ files[2].hunks[1].attachments[1].context.radius = 20

\* the number of lines with op `op` over all hunks in `hunks`
OpCount(hunks, op) ==
  SumSeq([h \in 1..Len(hunks) |->
            Cardinality({k \in 1..Len(hunks[h].lines) : hunks[h].lines[k].op = op})])

\* C27: at every moment of the parse, every finished file has
\* stats.additions equal to the number of its hunk lines with op 'add',
\* stats.deletions to the number with op 'del' and stats.hunks to the length
\* of its hunk list, and the counters of the open file equal the same counts
\* over its hunks so far; so no line outside a hunk adds to either count.
StatsAgreeWithHunks ==
  /\ \A f \in 1..Len(files) :
       /\ files[f].stats.additions = OpCount(files[f].hunks, "add")
       /\ files[f].stats.deletions = OpCount(files[f].hunks, "del")
       /\ files[f].stats.hunks = Len(files[f].hunks)
  /\ current # None =>
       /\ current[1].additions = OpCount(current[1].hunks, "add")
       /\ current[1].deletions = OpCount(current[1].hunks, "del")

\* C27 witness: a finished file with both path header lines and one hunk of
\* two context lines, one addition and one deletion
StatsOfModifiedFile ==
  /\ Done
  /\ \E f \in 1..Len(files) :
       /\ files[f].pathOld # None /\ files[f].pathNew # None
       /\ files[f].stats = [additions |-> 1, deletions |-> 1, hunks |-> 1]
       /\ Len(files[f].hunks[1].lines) = 4

-----------------------------------------------------------------------------
(* Termination of the parser                                               *)

\* one step of the loops: in the outer loop at a line the index goes up by
\* one; in the inner loop it goes up by one or the loop is left for the outer
\* loop at the same line; past the last line the parse finishes
LoopProgress ==
  /\ i <= Len(lines)
  /\ (pc = "outer" /\ i < Len(lines)) => (i' = i + 1 /\ pc' \in {"outer", "inner"})
  /\ (pc = "outer" /\ i >= Len(lines)) => (i' = i /\ pc' = "done")
  /\ pc = "inner" => \/ i' = i + 1 /\ pc' = "inner"
                     \/ i' = i /\ pc' = "outer"
  /\ lines' = lines

\* the branches of the two loops cover every line: the outer loop finishes
\* past the last line and has a branch for every kind of line, the inner loop
\* leaves, flags or pushes at every line
SomeBranchTaken ==
  IF i >= Len(lines) THEN TRUE
  ELSE IF pc = "outer"
  THEN \/ current = None
       \/ OuterKind(Line) \in {"boundary", "index", "oldMode", "newMode", "similarity",
                               "renameFrom", "renameTo", "copyFrom", "copyTo", "oldPath",
                               "newPath", "binary", "hunkHeader", "other"}
  ELSE /\ current # None
       /\ current[1].hunks # <<>>
       /\ InnerKind(Line) \in {"break", "noNewline", "line"}

\* C28: in its loops the parser always has a branch to take; every step
\* increases the line index by one, or leaves the inner loop for the outer
\* loop at the same line (whose step then increases it), or is the final
\* one; and every parse reaches the final finalize/totals step.
ParseTerminates ==
  /\ [](pc \in {"outer", "inner"} => SomeBranchTaken)
  /\ [][LoopProgress]_vars
  /\ <>Done

\* C28 witness: a finished parse of two files and two hunks whose line index
\* stands at the end of the input
ParsedToTheEnd ==
  /\ Done
  /\ i = Len(lines)
  /\ Len(files) = 2
  /\ Len(AllHunks) = 2
  /\ totals.filesChanged = 2

-----------------------------------------------------------------------------
(* Claims about GitMonitor                                                 *)

\* the calls of checkForChanges that have set isProcessing and not returned
ChecksInFlight == inStatus + inDiff

\* C29: at most one call of checkForChanges is between setting isProcessing
\* and returning, whatever the order of triggers, of ends of git processes
\* and of calls of notifyLLMProcessingComplete.
OneCheckAtATime == ChecksInFlight <= 1

\* the 'diff-changed' events emitted so far, in order
DiffEvents == SelectSeq(emitted, LAMBDA e : e.type = "diff-changed")

\* the hash of the diff of the latest 'diff-changed' event ('' before the first)
LastEmittedHash ==
  IF DiffEvents = <<>> THEN "" ELSE hashString(DiffEvents[Len(DiffEvents)].diffText)

\* a step that emits: one event is appended, at the end of an await of a
\* check; a 'diff-changed' event is appended only at the end of git diff, its
\* hash differs from lastDiffHash and becomes lastDiffHash; any other step
\* leaves lastDiffHash alone
EmitsOnlyOnNewHash ==
  /\ emitted' # emitted =>
       /\ Len(emitted') = Len(emitted) + 1
       /\ SubSeq(emitted', 1, Len(emitted)) = emitted
       /\ inStatus' < inStatus \/ inDiff' < inDiff
  /\ \A e \in {emitted'[k] : k \in (Len(emitted) + 1)..Len(emitted')} :
       e.type = "diff-changed" =>
         /\ inDiff' = inDiff - 1 /\ inStatus' = inStatus
         /\ hashString(e.diffText) # lastDiffHash
         /\ lastDiffHash' = hashString(e.diffText)
  /\ lastDiffHash' # lastDiffHash =>
       \E k \in (Len(emitted) + 1)..Len(emitted') : emitted'[k].type = "diff-changed"

\* C30: in folder-watch mode two consecutive 'diff-changed' events never
\* carry diffs of the same hash, lastDiffHash is always the hash of the diff
\* emitted last, and a 'diff-changed' event is emitted only by a check whose
\* diff has another hash than lastDiffHash: a check that finds no git
\* changes, or a diff of the same hash, emits none.
DiffChangedOnlyOnNewHash ==
  /\ [](/\ \A k \in 1..(Len(DiffEvents) - 1) :
             hashString(DiffEvents[k].diffText) # hashString(DiffEvents[k + 1].diffText)
        /\ lastDiffHash = LastEmittedHash)
  /\ [][EmitsOnlyOnNewHash]_vars

\* C30 witness: two 'diff-changed' events were emitted, the first for the
\* diff "Aa" and the second for a diff whose hash is negative; the repository
\* now has the diff "BB", of the same hash as "Aa", and no check is under way
TwoEventsThenCollidingDiff ==
  /\ Len(emitted) = 2
  /\ emitted[1] = DiffChanged("Aa")
  /\ emitted[2] = DiffChanged("diff --git a/x b/x")
  /\ lastDiffHash = "-1231748500"
  /\ repo.diff = "BB"
  /\ ChecksInFlight = 0

====
